---- MODULE Spec2Model ----
(***************************************************************************)
(* Model of the market-insight-agent's CME volume / open-interest tracker  *)
(* (modules/cme_volume.py): the rolling spike detector, the open-interest  *)
(* change detector, the economic-calendar matcher and alert generation;    *)
(* and of its macro sentiment analyzer (modules/macro_sentiment.py): the   *)
(* indicator readings, the environment rating and the ES bias.             *)
(*                                                                         *)
(* Numbers.  pandas computes in float64; the model computes the same       *)
(* quotients exactly, as pairs <<numerator, denominator>>, and keeps the    *)
(* IEEE outcomes of a division by zero (x/0 = +inf or -inf, 0/0 = NaN)      *)
(* as the comparisons the code then makes on them.                         *)
(*                                                                         *)
(* Time.  A datetime is an integer count of ticks; TicksPerDay ticks make  *)
(* a day, so a datetime carries a time of day (tick % TicksPerDay).        *)
(***************************************************************************)
EXTENDS Integers, Sequences, FiniteSets, TLC

VARIABLES config,       \* self.config["thresholds"]
          calendar,     \* self.config["economic_calendar"]
          volume_data,  \* self.volume_data : contract -> stored volume series
          oi_data,      \* self.oi_data : contract -> stored open-interest series
          alerts,       \* self.alerts
          now,          \* the clock read by datetime.now()
          call,         \* the operation last called, with its arguments
          ret,          \* the list it returned
          raised,       \* the exception it raised, "none" if it returned
          prev,         \* the call before it: [call, ret, raised]
          macro_config,        \* MacroSentimentAnalyzer.config: the thresholds
          indicators,          \* MacroSentimentAnalyzer.indicators
          environment_rating,  \* MacroSentimentAnalyzer.environment_rating
          es_bias,             \* MacroSentimentAnalyzer.es_bias
          analyzed_data,       \* NewsScraperSentiment.analyzed_data
          agent_config,        \* MarketAIAgent.config
          pc,                  \* the stage run_all is about to run
          results              \* the results of the stages run_all has run

vars == <<config, calendar, volume_data, oi_data, alerts, now, call, ret, raised, prev,
          macro_config, indicators, environment_rating, es_bias,
          analyzed_data, agent_config, pc, results>>

----------------------------------------------------------------------------
(* Bounds of the model *)

MaxVolLen == 3      \* longest volume series drawn
MaxOILen == 2       \* longest open-interest series drawn
TicksPerDay == 2    \* resolution of the time of day
MaxCheckDay == 45   \* last day asked of the calendar matcher
MockWindowDays == 2 \* days of history fetch_cme_data generates (30 in the code)
MaxClockSteps == 2  \* times the clock is advanced between calls
MaxMacroClockSteps == 1  \* times it is advanced between calls of the analyzer
MaxArticles == 4    \* most analysed articles drawn

\* volumes and open-interest values drawn for the stored series
VolumeValues == {0, 1, 4}
OIValues == {0, 10, 12}
OIChangeValues == {-10, 10}

Contracts == {"ES"}     \* contracts whose series may be stored

----------------------------------------------------------------------------
(* Quotients as numerator and denominator; a denominator of 0 is the float
   division by zero (inf, -inf or NaN); thresholds have denominator > 0 *)

Rat(n, d) == [num |-> n, den |-> d]

Abs(x) == IF x < 0 THEN -x ELSE x

\* the float comparison  a / b > t  as pandas evaluates it, t = t.num / t.den:
\* b = 0 gives +inf (a > 0), -inf (a < 0) or NaN (a = 0); NaN > t is False
QuotientExceeds(a, b, t) ==
    IF b = 0 THEN a > 0
    ELSE IF b > 0 THEN a * t.den > t.num * b
    ELSE a * t.den < t.num * b

\* the float comparison  abs(a / b) > t
AbsQuotientExceeds(a, b, t) ==
    IF b = 0 THEN a # 0
    ELSE Abs(a) * t.den > t.num * Abs(b)

----------------------------------------------------------------------------
(* Sequences *)

RemoveAt(s, i) == [j \in 1..(Len(s) - 1) |-> IF j < i THEN s[j] ELSE s[j + 1]]

\* DataFrame.sort_values('date'): ascending by date
RECURSIVE SortByDate(_)
SortByDate(s) ==
    IF s = <<>> THEN <<>>
    ELSE LET m == CHOOSE i \in 1..Len(s) :
                    /\ \A j \in 1..Len(s) : s[i].date <= s[j].date
                    /\ \A j \in 1..(i - 1) : s[j].date # s[i].date
         IN  <<s[m]>> \o SortByDate(RemoveAt(s, m))

Max(a, b) == IF a > b THEN a ELSE b

NoneVal == [num |-> 0, den |-> 0]      \* Python's None for a threshold argument

----------------------------------------------------------------------------
(* detect_volume_spikes *)

\* Series.rolling(window=w, min_periods=1): the rows the window of row i holds
RollingWindow(i, w) == Max(1, i - w + 1)..i

\* the same, without the row itself
RollingWindowPreceding(i, w) == Max(1, i - w)..(i - 1)

\* the volumes of the rows of a window, added up
RECURSIVE WindowSum(_, _)
WindowSum(df, win) ==
    IF win = {} THEN 0
    ELSE LET k == CHOOSE x \in win : TRUE
         IN  df[k].volume + WindowSum(df, win \ {k})

\* .sum() of the window in place of its mean
RollingSum(df, i, w) ==
    LET win == RollingWindow(i, w)
    IN  [sum |-> WindowSum(df, win), n |-> 1]

\* .mean() of the window of row i, as sum and count
RollingMean(df, i, w) ==
    LET win == RollingWindow(i, w)
    IN  [sum |-> WindowSum(df, win), n |-> Cardinality(win)]

\* the frame after sort_values and the two added columns
\*   avg_volume   = sum / n
\*   volume_ratio = volume / avg_volume = (volume * n) / sum
VolumeFrame(series, w) ==
    LET df == SortByDate(series)
    IN  [i \in 1..Len(df) |->
            LET avg == RollingMean(df, i, w)
            IN  [date |-> df[i].date, volume |-> df[i].volume,
                 avg_volume |-> avg,
                 volume_ratio |-> Rat(df[i].volume * avg.n, avg.sum)]]

\* volume_df[volume_df['volume_ratio'] > threshold]
IsSpikeRow(row, t) == QuotientExceeds(row.volume_ratio.num, row.volume_ratio.den, t)

SpikeEvents(series, contract, w, t) ==
    LET spike_df == SelectSeq(VolumeFrame(series, w), LAMBDA row : IsSpikeRow(row, t))
    IN  [i \in 1..Len(spike_df) |->
            [date |-> spike_df[i].date, contract |-> contract,
             volume |-> spike_df[i].volume, avg_volume |-> spike_df[i].avg_volume,
             ratio |-> spike_df[i].volume_ratio, type |-> "volume_spike"]]

\* what detect_volume_spikes(contract, lookback_period=w) returns or raises
\* on the tracker state (vd = self.volume_data, cfg = thresholds)
DetectVolumeSpikesOutcome(vd, cfg, contract, w) ==
    IF contract \notin DOMAIN vd THEN [ret |-> <<>>, raised |-> "none"]
    ELSE IF w <= 0 THEN [ret |-> <<>>, raised |-> "ValueError"]
    ELSE [ret |-> SpikeEvents(vd[contract], contract, w, cfg.volume_spike),
          raised |-> "none"]

----------------------------------------------------------------------------
(* detect_oi_changes *)

\* the frame after sort_values and the added column
\*   pct_change = change / open_interest.shift(1)     (NaN in the first row)
OIFrame(series) ==
    LET df == SortByDate(series)
    IN  [i \in 1..Len(df) |->
            [date |-> df[i].date, open_interest |-> df[i].open_interest,
             change |-> df[i].change,
             has_prev |-> i > 1,
             pct_change |-> IF i > 1 THEN Rat(df[i].change, df[i - 1].open_interest)
                            ELSE Rat(0, 0)]]

\* oi_df[abs(oi_df['pct_change']) > threshold]
IsChangeRow(row, t) ==
    /\ row.has_prev
    /\ AbsQuotientExceeds(row.pct_change.num, row.pct_change.den, t)

ChangeEvents(series, contract, t) ==
    LET change_df == SelectSeq(OIFrame(series), LAMBDA row : IsChangeRow(row, t))
    IN  [i \in 1..Len(change_df) |->
            [date |-> change_df[i].date, contract |-> contract,
             open_interest |-> change_df[i].open_interest,
             change |-> change_df[i].change,
             pct_change |-> change_df[i].pct_change, type |-> "oi_change",
             direction |-> IF change_df[i].change > 0 THEN "increase" ELSE "decrease"]]

\* what detect_oi_changes(contract, threshold) returns
DetectOIChangesOutcome(od, cfg, contract, threshold) ==
    IF contract \notin DOMAIN od THEN [ret |-> <<>>, raised |-> "none"]
    ELSE [ret |-> ChangeEvents(od[contract], contract,
                               IF threshold = NoneVal THEN cfg.oi_change ELSE threshold),
          raised |-> "none"]

----------------------------------------------------------------------------
(* check_economic_events *)

\* Days are counted from 2025-04-01 (day 0, a Tuesday); datetime.strptime of
\* a calendar string gives the midnight of its day.
Midnight(day) == day * TicksPerDay

\* the default self.config["economic_calendar"]
DefaultCalendar ==
    [fomc_meetings |-> <<29, 71, 120, 169, 218, 260>>,
     earnings_seasons |->
        <<[start |-> 14, end |-> 44, description |-> "Q1 2025 Earnings"],
          [start |-> 105, end |-> 136, description |-> "Q2 2025 Earnings"],
          [start |-> 197, end |-> 228, description |-> "Q3 2025 Earnings"],
          [start |-> 289, end |-> 320, description |-> "Q4 2025 Earnings"]>>,
     economic_releases |->
        <<[date |-> 9, description |-> "CPI Release"],
          [date |-> 16, description |-> "Initial Jobless Claims"],
          [date |-> 24, description |-> "GDP Release"],
          [date |-> 32, description |-> "Non-Farm Payrolls"]>>]

\* (a - b).days of two datetimes: timedelta normalises to days + a
\* non-negative remainder, so .days is the floor of the difference in days
TimedeltaDays(a, b) == (a - b) \div TicksPerDay

FomcWindowDays == 3
ReleaseWindowDays == 2
UpcomingWindowDays == 5

\* the FOMC loop
FomcEvents(cal, date) ==
    LET near == SelectSeq(cal.fomc_meetings,
                   LAMBDA f : Abs(TimedeltaDays(date, Midnight(f))) <= FomcWindowDays)
    IN  [i \in 1..Len(near) |->
            [type |-> "FOMC Meeting", date |-> near[i],
             days_away |-> Abs(TimedeltaDays(date, Midnight(near[i])))]]

IsCurrentSeason(season, date) ==
    Midnight(season.start) <= date /\ date <= Midnight(season.end)

IsUpcomingSeason(season, date) ==
    /\ ~IsCurrentSeason(season, date)
    /\ Abs(TimedeltaDays(date, Midnight(season.start))) <= UpcomingWindowDays

\* the earnings-season loop
SeasonEvents(cal, date) ==
    LET near == SelectSeq(cal.earnings_seasons,
                   LAMBDA s : IsCurrentSeason(s, date) \/ IsUpcomingSeason(s, date))
    IN  [i \in 1..Len(near) |->
            IF IsCurrentSeason(near[i], date)
            THEN [type |-> "Earnings Season", description |-> near[i].description,
                  start_date |-> near[i].start, end_date |-> near[i].end]
            ELSE [type |-> "Upcoming Earnings Season",
                  description |-> near[i].description,
                  start_date |-> near[i].start,
                  days_away |-> TimedeltaDays(Midnight(near[i].start), date)]]

\* the economic-release loop
ReleaseEvents(cal, date) ==
    LET near == SelectSeq(cal.economic_releases,
                   LAMBDA r : Abs(TimedeltaDays(date, Midnight(r.date))) <= ReleaseWindowDays)
    IN  [i \in 1..Len(near) |->
            [type |-> "Economic Release", description |-> near[i].description,
             date |-> near[i].date,
             days_away |-> Abs(TimedeltaDays(date, Midnight(near[i].date)))]]

\* what check_economic_events(date) returns
NearbyEvents(cal, date) ==
    FomcEvents(cal, date) \o SeasonEvents(cal, date) \o ReleaseEvents(cal, date)

----------------------------------------------------------------------------
(* fetch_cme_data: the mock series *)

\* self.config["contracts"] and the names _create_alert_message reads
ConfigContracts == {"ES", "NQ", "YM"}

ContractName(c) ==
    IF c = "ES" THEN "E-mini S&P 500"
    ELSE IF c = "NQ" THEN "E-mini Nasdaq-100" ELSE "E-mini Dow"

BaseVolume(c) == IF c = "ES" THEN 2000000 ELSE IF c = "NQ" THEN 1500000 ELSE 1000000
BaseOI(c) == IF c = "ES" THEN 3000000 ELSE IF c = "NQ" THEN 2000000 ELSE 1500000

\* base_oi * 0.8, the floor of the mock open interest
OIFloor(c) == (BaseOI(c) * 8) \div 10

\* day 0 is a Tuesday; 0 = Monday .. 6 = Sunday
Weekday(t) == ((t \div TicksPerDay) + 1) % 7

\* pd.date_range(start = now - window, end = now, freq = 'B'): the business
\* days from start to now, each at the time of day of now
RECURSIVE BusinessDays(_, _)
BusinessDays(t, end) ==
    IF t > end THEN <<>>
    ELSE (IF Weekday(t) < 5 THEN <<t>> ELSE <<>>) \o BusinessDays(t + TicksPerDay, end)

DateRange(nowT) == BusinessDays(nowT - MockWindowDays * TicksPerDay, nowT)

\* the values np.random.randn() leads to: the daily volume before the FOMC
\* factor, as a multiple of the base volume, and the daily change of the
\* open interest, int(base_oi * 0.02 * randn)
MockVolumeFactors == {1, 2}
MockOIChanges(c) == {-(BaseOI(c) \div 5), BaseOI(c) \div 5}

\* daily_volume = int(daily_volume * 1.8), once per FOMC date within a day
RECURSIVE FomcSpiked(_, _, _)
FomcSpiked(v, date, fomc) ==
    IF fomc = <<>> THEN v
    ELSE FomcSpiked(IF Abs(TimedeltaDays(date, Midnight(Head(fomc)))) <= 1
                    THEN (v * 18) \div 10 ELSE v,
                    date, Tail(fomc))

MockVolumeFrame(c, cal, dates, f) ==
    [i \in 1..Len(dates) |->
        [date |-> dates[i],
         volume |-> FomcSpiked(BaseVolume(c) * f[i], dates[i], cal.fomc_meetings)]]

\* current_oi after the rows 1..i: current_oi += daily_change, then
\* current_oi = max(current_oi, base_oi * 0.8)
RECURSIVE CurrentOI(_, _, _)
CurrentOI(c, ch, i) ==
    IF i = 0 THEN BaseOI(c)
    ELSE Max(CurrentOI(c, ch, i - 1) + ch[i], OIFloor(c))

MockOIFrame(c, dates, ch) ==
    [i \in 1..Len(dates) |->
        [date |-> dates[i], open_interest |-> CurrentOI(c, ch, i), change |-> ch[i]]]

\* the frames one fetch_cme_data(c) call at time nowT may generate
MockData(c, cal, nowT) ==
    LET dates == DateRange(nowT)
    IN  {[volume |-> MockVolumeFrame(c, cal, dates, f), oi |-> MockOIFrame(c, dates, ch)] :
            f \in [1..Len(dates) -> MockVolumeFactors],
            ch \in [1..Len(dates) -> MockOIChanges(c)]}

DictPut(d, k, v) == [x \in DOMAIN d \cup {k} |-> IF x = k THEN v ELSE d[x]]

----------------------------------------------------------------------------
(* generate_alerts *)

LookbackDefault == 10

\* f"{ratio:.1f}": the ratio in tenths, rounded half to even; -1 stands for inf
RatioTenths(r) ==
    IF r.den = 0 THEN -1
    ELSE LET q == (10 * r.num) \div r.den
             m == (10 * r.num) % r.den
         IN  IF 2 * m > r.den THEN q + 1
             ELSE IF 2 * m = r.den THEN q + (q % 2)
             ELSE q

\* date.strftime("%Y-%m-%d"): the day, without the time of day
DateStr(t) == t \div TicksPerDay

\* the clause the first economic event adds to a volume-spike message
ContextClause(economic_events) ==
    IF economic_events = <<>> THEN <<>>
    ELSE LET context == economic_events[1]
         IN  IF context.type = "FOMC Meeting"
                THEN <<"days from FOMC meeting", context.days_away>>
             ELSE IF context.type = "Earnings Season"
                THEN <<"During", context.description>>
             ELSE IF context.type = "Economic Release"
                THEN <<"Near", context.description>>
             ELSE <<>>

\* _create_alert_message(event): the parts the text is formatted from
CreateAlertMessage(event) ==
    IF event.type = "volume_spike"
    THEN <<ContractName(event.contract), "volume spike detected on", DateStr(event.date),
           event.volume, RatioTenths(event.ratio)>>
         \o ContextClause(event.economic_events)
    ELSE <<ContractName(event.contract), "open interest", DateStr(event.date),
           IF event.change > 0 THEN "increase" ELSE "decrease">>

\* events.sort(key=lambda x: x['date'], reverse=True): latest first, events
\* of one date in their order in the list (the sort is stable)
RECURSIVE SortEventsLatestFirst(_)
SortEventsLatestFirst(s) ==
    IF s = <<>> THEN <<>>
    ELSE LET m == CHOOSE i \in 1..Len(s) :
                    /\ \A j \in 1..Len(s) : s[i].date >= s[j].date
                    /\ \A j \in 1..(i - 1) : s[j].date # s[i].date
         IN  <<s[m]>> \o SortEventsLatestFirst(RemoveAt(s, m))

\* event['economic_events'] = economic_events
WithEconomicEvents(event, ee) ==
    [k \in DOMAIN event \cup {"economic_events"} |->
        IF k = "economic_events" THEN ee ELSE event[k]]

\* the recent events of one contract, from its stored series
RecentEvents(vd, od, cfg, nowT, c) ==
    LET volume_spikes == DetectVolumeSpikesOutcome(vd, cfg, c, LookbackDefault).ret
        oi_changes == DetectOIChangesOutcome(od, cfg, c, NoneVal).ret
        events == SortEventsLatestFirst(volume_spikes \o oi_changes)
        cutoff_date == nowT - cfg.alert_period * TicksPerDay
    IN  SelectSeq(events, LAMBDA e : e.date > cutoff_date)

\* the alerts of one contract, from its stored series
ContractAlerts(vd, od, cfg, cal, nowT, c) ==
    LET recent_events == RecentEvents(vd, od, cfg, nowT, c)
    IN  [i \in 1..Len(recent_events) |->
            LET economic_events == NearbyEvents(cal, recent_events[i].date)
                event == WithEconomicEvents(recent_events[i], economic_events)
            IN  [date |-> event.date, contract |-> c, event_type |-> event.type,
                 message |-> CreateAlertMessage(event), details |-> event,
                 economic_context |-> economic_events]]

\* the loop over the contracts: mock[c] is what fetch_cme_data(c) generates
\* when the loop has to fetch; the result is the tracker's series and alerts.
\* _create_alert_message reads config["contracts"][contract]["name"]: the
\* first recent event of a contract the configuration does not list raises
\* KeyError, which nothing in the loop catches
RECURSIVE AlertsLoop(_, _, _, _, _, _, _, _)
AlertsLoop(vd, od, cfg, cal, nowT, contracts, mock, all_alerts) ==
    IF contracts = <<>>
    THEN [volume_data |-> vd, oi_data |-> od, alerts |-> all_alerts, raised |-> "none"]
    ELSE LET c == Head(contracts)
             fetch == (c \notin DOMAIN vd \/ c \notin DOMAIN od) /\ c \in ConfigContracts
             vd1 == IF fetch THEN DictPut(vd, c, mock[c].volume) ELSE vd
             od1 == IF fetch THEN DictPut(od, c, mock[c].oi) ELSE od
         IN  IF c \notin ConfigContracts /\ RecentEvents(vd1, od1, cfg, nowT, c) # <<>>
             THEN [volume_data |-> vd1, oi_data |-> od1, alerts |-> all_alerts,
                   raised |-> "KeyError"]
             ELSE AlertsLoop(vd1, od1, cfg, cal, nowT, Tail(contracts), mock,
                             all_alerts \o ContractAlerts(vd1, od1, cfg, cal, nowT, c))

----------------------------------------------------------------------------
(* The tracker after construction, and the series handed to it *)

\* the defaults of self.config["thresholds"]
DefaultThresholds ==
    [volume_spike |-> Rat(3, 2), oi_change |-> Rat(1, 10), alert_period |-> 7]

\* thresholds a custom configuration file may set (json.load, config.update)
SpikeThresholds == {Rat(0, 1), Rat(1, 2), Rat(3, 2)}
OIThresholds == {Rat(0, 1), Rat(1, 10)}

\* lookback_period arguments, and threshold arguments of detect_oi_changes
Lookbacks == {0, 1, 2, 10}
ThresholdArgs == {NoneVal, Rat(1, 100)}

DateOrders(n) == {p \in [1..n -> 1..n] : \A i, j \in 1..n : p[i] = p[j] => i = j}

\* every volume series of n points: distinct dates in any stored order
VolumeSeriesOfLen(n) ==
    {[i \in 1..n |-> [date |-> Midnight(p[i]), volume |-> v[i]]] :
        p \in DateOrders(n), v \in [1..n -> VolumeValues]}

\* every open-interest series of n points; o[d] is the open interest of day d
\* and the change column is the day's change of it (c1 on the first day)
OISeriesOfLen(n) ==
    {[i \in 1..n |-> [date |-> Midnight(p[i]), open_interest |-> o[p[i]],
                      change |-> IF p[i] = 1 THEN c1 ELSE o[p[i]] - o[p[i] - 1]]] :
        p \in DateOrders(n), o \in [1..n -> OIValues], c1 \in OIChangeValues}

\* a dict: a function whose domain is the set of its keys
EmptyDict == [c \in {} |-> <<>>]
Dict(keys, v) == [c \in keys |-> v]

NoCall == [op |-> "none", contract |-> "", lookback |-> 0, threshold |-> NoneVal,
           date |-> 0, contracts |-> <<>>]
NoPrev == [call |-> NoCall, ret |-> <<>>, raised |-> "none"]

\* a configuration value: a dict (JSON object) with its items, or any other
\* value; isinstance(x, dict) is x.kind = "dict"
DictNode(items) == [kind |-> "dict", items |-> items]
Leaf(value) == [kind |-> "leaf", value |-> value]

\* the default MarketAIAgent.config
DefaultAgentConfig ==
    DictNode(
      [data_dir |-> Leaf("data"),
       reports_dir |-> Leaf("reports"),
       use_mock_data |-> Leaf(TRUE),
       modules |-> DictNode(
         [news_sentiment |-> DictNode([enabled |-> Leaf(TRUE),
                                       max_articles_per_source |-> Leaf(10)]),
          macro_sentiment |-> DictNode([enabled |-> Leaf(TRUE)]),
          cme_volume |-> DictNode([enabled |-> Leaf(TRUE),
                                   contracts |-> Leaf(<<"ES", "NQ", "YM">>)]),
          sentiment_crosscheck |-> DictNode([enabled |-> Leaf(TRUE)]),
          report_generator |-> DictNode(
            [enabled |-> Leaf(TRUE),
             format |-> Leaf("html"),
             email |-> DictNode([enabled |-> Leaf(FALSE)])])])])

\* _update_config(base_config, new_config): the configuration after the
\* recursive update
RECURSIVE UpdateConfig(_, _)
UpdateConfig(base_config, new_config) ==
    DictNode([key \in DOMAIN base_config.items \cup DOMAIN new_config.items |->
                IF key \notin DOMAIN new_config.items THEN base_config.items[key]
                ELSE IF /\ key \in DOMAIN base_config.items
                        /\ base_config.items[key].kind = "dict"
                        /\ new_config.items[key].kind = "dict"
                     THEN UpdateConfig(base_config.items[key], new_config.items[key])
                     ELSE new_config.items[key]])


\* the thresholds of the default MacroSentimentAnalyzer.config
DefaultMacroConfig ==
    [vix |-> [threshold_low |-> Rat(15, 1), threshold_high |-> Rat(25, 1)],
     inflation |-> [high |-> Rat(30, 10), low |-> Rat(10, 10)],
     yield_curve |-> [inversion |-> Rat(-1, 10)]]

\* the constant series of 20 points of 100 with one point of 500, dated
\* day 1 .. day 20; k is the 0-based position of the injected point
InjectedSeries(k) ==
    [i \in 1..20 |-> [date |-> Midnight(i), volume |-> IF i = k + 1 THEN 500 ELSE 100]]

\* the clock at construction: 2025-05-01, midday
NowStart == Midnight(30) + 1

InitCommon ==
    /\ calendar = DefaultCalendar
    /\ alerts = <<>>
    /\ now = NowStart
    /\ call = NoCall
    /\ ret = <<>>
    /\ raised = "none"
    /\ prev = NoPrev
    /\ macro_config = DefaultMacroConfig
    /\ indicators = EmptyDict
    /\ environment_rating = EmptyDict
    /\ es_bias = NoneVal
    /\ analyzed_data = <<>>
    /\ agent_config = DefaultAgentConfig
    /\ pc = "idle"
    /\ results = EmptyDict

\* a tracker whose volume series was supplied
InitVolume ==
    /\ config \in {[DefaultThresholds EXCEPT !.volume_spike = t] : t \in SpikeThresholds}
    /\ \/ volume_data = EmptyDict
       \/ \E c \in Contracts, n \in 0..MaxVolLen :
            \E s \in VolumeSeriesOfLen(n) : volume_data = Dict({c}, s)
    /\ oi_data = EmptyDict

\* a tracker whose open-interest series was supplied
InitOI ==
    /\ config \in {[DefaultThresholds EXCEPT !.oi_change = t] : t \in OIThresholds}
    /\ volume_data = EmptyDict
    /\ \/ oi_data = EmptyDict
       \/ \E c \in Contracts, n \in 0..MaxOILen :
            \E s \in OISeriesOfLen(n) : oi_data = Dict({c}, s)

\* a tracker holding the synthetic series, default configuration
InitInjected ==
    /\ config = DefaultThresholds
    /\ \E c \in Contracts, k \in 0..19 : volume_data = Dict({c}, InjectedSeries(k))
    /\ oi_data = EmptyDict

Init == InitCommon /\ (InitVolume \/ InitOI \/ InitInjected)

----------------------------------------------------------------------------
(* The operations *)

\* detect_volume_spikes sorting the stored frame itself (inplace=True)
DetectVolumeSpikesInPlace(c, w) ==
    LET out == DetectVolumeSpikesOutcome(volume_data, config, c, w)
    IN  /\ call' = [op |-> "detect_volume_spikes", contract |-> c,
                    lookback |-> w, threshold |-> NoneVal, date |-> 0,
                    contracts |-> <<>>]
        /\ ret' = out.ret
        /\ raised' = out.raised
        /\ prev' = [call |-> call, ret |-> ret, raised |-> raised]
        /\ volume_data' = [k \in DOMAIN volume_data |->
                              IF k = c THEN SortByDate(volume_data[k]) ELSE volume_data[k]]
        /\ UNCHANGED <<config, calendar, oi_data, alerts, now>>
        /\ UNCHANGED <<macro_config, indicators, environment_rating, es_bias>>
        /\ UNCHANGED <<analyzed_data, agent_config, pc, results>>

DetectVolumeSpikes(c, w) ==
    LET out == DetectVolumeSpikesOutcome(volume_data, config, c, w)
    IN  /\ call' = [op |-> "detect_volume_spikes", contract |-> c,
                    lookback |-> w, threshold |-> NoneVal, date |-> 0,
                    contracts |-> <<>>]
        /\ ret' = out.ret
        /\ raised' = out.raised
        /\ prev' = [call |-> call, ret |-> ret, raised |-> raised]
        /\ UNCHANGED <<config, calendar, volume_data, oi_data, alerts, now>>
        /\ UNCHANGED <<macro_config, indicators, environment_rating, es_bias>>
        /\ UNCHANGED <<analyzed_data, agent_config, pc, results>>

DetectOIChanges(c, t) ==
    LET out == DetectOIChangesOutcome(oi_data, config, c, t)
    IN  /\ call' = [op |-> "detect_oi_changes", contract |-> c,
                    lookback |-> 0, threshold |-> t, date |-> 0,
                    contracts |-> <<>>]
        /\ ret' = out.ret
        /\ raised' = out.raised
        /\ prev' = [call |-> call, ret |-> ret, raised |-> raised]
        /\ UNCHANGED <<config, calendar, volume_data, oi_data, alerts, now>>
        /\ UNCHANGED <<macro_config, indicators, environment_rating, es_bias>>
        /\ UNCHANGED <<analyzed_data, agent_config, pc, results>>

NoMock == [volume |-> <<>>, oi |-> <<>>]

\* what the fetches inside one generate_alerts call may generate
MockChoices(contracts) ==
    LET cs == {contracts[i] : i \in DOMAIN contracts}
        fetched == {c \in cs : (c \notin DOMAIN volume_data \/ c \notin DOMAIN oi_data)
                                /\ c \in ConfigContracts}
        frames == [c \in fetched |-> MockData(c, calendar, now)]
    IN  {[c \in cs |-> IF c \in fetched THEN g[c] ELSE NoMock] :
            g \in {h \in [fetched -> UNION {frames[c] : c \in fetched}] :
                      \A c \in fetched : h[c] \in frames[c]}}

\* generate_alerts(contracts)
GenerateAlerts(contracts) ==
    \E mock \in MockChoices(contracts) :
        \E out \in {AlertsLoop(volume_data, oi_data, config, calendar, now,
                                contracts, mock, <<>>)} :
            /\ call' = [op |-> "generate_alerts", contract |-> "", lookback |-> 0,
                        threshold |-> NoneVal, date |-> 0, contracts |-> contracts]
            /\ ret' = IF out.raised = "none" THEN out.alerts ELSE <<>>
            /\ raised' = out.raised
            /\ prev' = [call |-> call, ret |-> ret, raised |-> raised]
            /\ volume_data' = out.volume_data
            /\ oi_data' = out.oi_data
            /\ alerts' = IF out.raised = "none" THEN out.alerts ELSE alerts
            /\ UNCHANGED <<config, calendar, now>>
            /\ UNCHANGED <<macro_config, indicators, environment_rating, es_bias>>
            /\ UNCHANGED <<analyzed_data, agent_config, pc, results>>

\* time passes between two calls
ClockStep == 3 * TicksPerDay
MaxNow == NowStart + MaxClockSteps * ClockStep

Tick ==
    /\ now + ClockStep <= MaxNow
    /\ now' = now + ClockStep
    /\ UNCHANGED <<config, calendar, volume_data, oi_data, alerts, call, ret, raised, prev>>
    /\ UNCHANGED <<macro_config, indicators, environment_rating, es_bias>>
    /\ UNCHANGED <<analyzed_data, agent_config, pc, results>>

\* check_economic_events(date)
CheckEconomicEvents(d) ==
    /\ call' = [op |-> "check_economic_events", contract |-> "",
                lookback |-> 0, threshold |-> NoneVal, date |-> d,
                contracts |-> <<>>]
    /\ ret' = NearbyEvents(calendar, d)
    /\ raised' = "none"
    /\ prev' = [call |-> call, ret |-> ret, raised |-> raised]
    /\ UNCHANGED <<config, calendar, volume_data, oi_data, alerts, now>>
    /\ UNCHANGED <<macro_config, indicators, environment_rating, es_bias>>
    /\ UNCHANGED <<analyzed_data, agent_config, pc, results>>

Next ==
    \/ \E c \in Contracts, w \in Lookbacks : DetectVolumeSpikes(c, w)
    \/ \E c \in Contracts, t \in ThresholdArgs : DetectOIChanges(c, t)

Spec == Init /\ [][Next]_vars

\* a freshly constructed tracker with the default configuration: the first
\* generate_alerts fetches the series, the detectors and later calls read
\* them, and time passes between the calls
InitTracker ==
    /\ InitCommon
    /\ config = DefaultThresholds
    /\ volume_data = EmptyDict
    /\ oi_data = EmptyDict

ContractLists == {<<c>> : c \in Contracts}

NextTracker ==
    \/ \E c \in Contracts : DetectVolumeSpikes(c, LookbackDefault)
    \/ \E c \in Contracts : DetectOIChanges(c, NoneVal)
    \/ \E cs \in ContractLists : GenerateAlerts(cs)
    \/ Tick

SpecTracker == InitTracker /\ [][NextTracker]_vars

\* a tracker that was handed the volume series of CL, a contract its
\* configuration does not list: the 3 days up to 2025-04-29, day k a spike
UnlistedSeries(k) ==
    [i \in 1..3 |-> [date |-> Midnight(25 + i), volume |-> IF i = k THEN 500 ELSE 100]]

InitUnlisted ==
    /\ InitCommon
    /\ config = DefaultThresholds
    /\ \E k \in 0..3 : volume_data = Dict({"CL"}, UnlistedSeries(k))
    /\ oi_data = EmptyDict

UnlistedLists == {<<"ES">>, <<"CL">>, <<"ES", "CL">>, <<"CL", "ES">>}

NextUnlisted == \E contracts \in UnlistedLists : GenerateAlerts(contracts)

SpecUnlisted == InitUnlisted /\ [][NextUnlisted]_vars

\* earnings seasons a configuration file may hold besides the default ones:
\* <<start, end>> of a one-day season and of a three-day season
ShortSeasonSpans == {<<20, 20>>, <<20, 22>>}

\* self.config["economic_calendar"] after config.update(custom_config): the
\* default calendar, or one whose earnings season is a short one
ConfiguredCalendars ==
    {DefaultCalendar} \cup
    {[DefaultCalendar EXCEPT !.earnings_seasons =
         <<[start |-> sp[1], end |-> sp[2], description |-> "Short Season"]>>] :
       sp \in ShortSeasonSpans}

\* the calendar matcher alone, on a freshly constructed tracker
InitCalendar ==
    /\ calendar \in ConfiguredCalendars
    /\ config = DefaultThresholds
    /\ volume_data = EmptyDict
    /\ oi_data = EmptyDict
    /\ alerts = <<>>
    /\ now = NowStart
    /\ call = NoCall
    /\ ret = <<>>
    /\ raised = "none"
    /\ prev = NoPrev
    /\ macro_config = DefaultMacroConfig
    /\ indicators = EmptyDict
    /\ environment_rating = EmptyDict
    /\ es_bias = NoneVal
    /\ analyzed_data = <<>>
    /\ agent_config = DefaultAgentConfig
    /\ pc = "idle"
    /\ results = EmptyDict

\* the datetimes asked about: every tick of day 0 .. day MaxCheckDay
CheckDates == 0..(Midnight(MaxCheckDay + 1) - 1)

NextCalendar == \E d \in CheckDates : CheckEconomicEvents(d)

SpecCalendar == InitCalendar /\ [][NextCalendar]_vars

----------------------------------------------------------------------------
(* MacroSentimentAnalyzer: the indicator readings *)

\* Floats are fractions [num, den] with a positive denominator.  None is
\* NoneVal where a number or a dict is expected and the string "None" where
\* a category is expected.
RatLess(a, b) == a.num * b.den < b.num * a.den
RatSub(a, b) == Rat(a.num * b.den - b.num * a.den, a.den * b.den)

\* _interpret_vix
InterpretVix(cfg, vix_value) ==
    IF RatLess(vix_value, cfg.vix.threshold_low) THEN "low_volatility"
    ELSE IF RatLess(cfg.vix.threshold_high, vix_value) THEN "high_volatility"
    ELSE "normal_volatility"

\* the quotes the VIX page may show: 14.5, 15 and 26
VixQuotes == {Rat(29, 2), Rat(15, 1), Rat(26, 1)}

\* what fetch_vix reads: a quote, or nothing (the element is not on the
\* page, its text is not a number, or the request fails)
VixPages == VixQuotes \cup {NoneVal}

\* the tenors of self.config["indicators"]["treasury_yields"]["urls"]
Tenors == {"2y", "10y", "30y"}

\* the yields the three pages may show, by tenor; a tenor whose element is
\* not on its page is absent
YieldPages ==
    {[t \in Tenors |-> IF t = "2y" THEN Rat(400, 100)
                       ELSE IF t = "10y" THEN Rat(380, 100) ELSE Rat(480, 100)],
     [t \in Tenors |-> IF t = "2y" THEN Rat(400, 100)
                       ELSE IF t = "10y" THEN Rat(460, 100) ELSE Rat(480, 100)],
     [t \in {"2y", "30y"} |-> IF t = "2y" THEN Rat(400, 100) ELSE Rat(480, 100)]}

\* the spreads fetch_treasury_yields adds to the yields it found
WithSpreads(yields) ==
    LET y1 == IF {"2y", "10y"} \subseteq DOMAIN yields
              THEN DictPut(yields, "10y_2y_spread", RatSub(yields["10y"], yields["2y"]))
              ELSE yields
    IN  IF {"10y", "30y"} \subseteq DOMAIN y1
        THEN DictPut(y1, "30y_10y_spread", RatSub(y1["30y"], y1["10y"]))
        ELSE y1

\* _interpret_yield_curve
InterpretYieldCurve(cfg, yields) ==
    IF "10y_2y_spread" \in DOMAIN yields
    THEN LET spread == yields["10y_2y_spread"]
         IN  IF RatLess(spread, cfg.yield_curve.inversion) THEN "inverted"
             ELSE IF RatLess(spread, Rat(1, 2)) THEN "flat"
             ELSE "normal"
    ELSE "unknown"

\* the mock economic data of fetch_economic_data; day numbers for the dates
MockEconomicData ==
    [k \in {"cpi", "core_cpi", "ppi", "core_pce", "unemployment", "gdp"} |->
        IF k = "cpi" THEN [latest |-> Rat(32, 10), previous |-> Rat(31, 10),
                           yoy_change |-> Rat(32, 10), date |-> -17]
        ELSE IF k = "core_cpi" THEN [latest |-> Rat(28, 10), previous |-> Rat(29, 10),
                                     yoy_change |-> Rat(28, 10), date |-> -17]
        ELSE IF k = "ppi" THEN [latest |-> Rat(25, 10), previous |-> Rat(27, 10),
                                yoy_change |-> Rat(25, 10), date |-> -22]
        ELSE IF k = "core_pce" THEN [latest |-> Rat(22, 10), previous |-> Rat(23, 10),
                                     yoy_change |-> Rat(22, 10), date |-> -31]
        ELSE IF k = "unemployment" THEN [latest |-> Rat(38, 10), previous |-> Rat(37, 10),
                                         mom_change |-> Rat(1, 10), date |-> 4]
        ELSE [latest |-> Rat(21, 10), previous |-> Rat(23, 10),
              qoq_change |-> Rat(-2, 10), date |-> -2]]

\* the data fetch_economic_data gathers: the mock data, or nothing (the
\* FRED branch is a placeholder)
EconomicData(use_mock_data) == IF use_mock_data THEN MockEconomicData ELSE EmptyDict

\* _interpret_economic_data
InterpretEconomicData(cfg, economic_data) ==
    LET i1 == IF "cpi" \in DOMAIN economic_data
              THEN LET cpi_yoy == economic_data["cpi"].yoy_change
                   IN  DictPut(EmptyDict, "inflation",
                          IF RatLess(cfg.inflation.high, cpi_yoy) THEN "high"
                          ELSE IF RatLess(cpi_yoy, cfg.inflation.low) THEN "low"
                          ELSE "moderate")
              ELSE EmptyDict
        i2 == IF "gdp" \in DOMAIN economic_data
              THEN LET gdp_qoq == economic_data["gdp"].qoq_change
                   IN  DictPut(i1, "growth",
                          IF RatLess(gdp_qoq, Rat(0, 1)) THEN "contracting"
                          ELSE IF RatLess(gdp_qoq, Rat(1, 1)) THEN "slow"
                          ELSE IF RatLess(gdp_qoq, Rat(3, 1)) THEN "moderate"
                          ELSE "strong")
              ELSE i1
    IN  IF "unemployment" \in DOMAIN economic_data
        THEN LET unemployment == economic_data["unemployment"].latest
             IN  DictPut(i2, "labor_market",
                    IF RatLess(unemployment, Rat(4, 1)) THEN "tight"
                    ELSE IF RatLess(unemployment, Rat(6, 1)) THEN "balanced"
                    ELSE "loose")
        ELSE i2

\* the entries the three fetches store in self.indicators
VixReading(cfg, vix_value, nowT) ==
    [value |-> vix_value, timestamp |-> nowT,
     interpretation |-> InterpretVix(cfg, vix_value)]

YieldsReading(cfg, yields, nowT) ==
    [values |-> yields, timestamp |-> nowT,
     interpretation |-> InterpretYieldCurve(cfg, yields)]

EconomicReading(cfg, economic_data, nowT) ==
    [values |-> economic_data, timestamp |-> nowT,
     interpretation |-> InterpretEconomicData(cfg, economic_data)]

----------------------------------------------------------------------------
(* MacroSentimentAnalyzer: the environment rating and the ES bias *)

\* the indicators rate_macro_environment requires
RequiredIndicators == {"vix", "treasury_yields", "economic_data"}

\* rating["risk_sentiment"]
RiskSentimentLoose(vix_interp, yield_curve_interp) ==
    IF vix_interp = "low_volatility" \/ yield_curve_interp # "inverted" THEN "risk_on"
    ELSE IF vix_interp = "high_volatility" \/ yield_curve_interp = "inverted" THEN "risk_off"
    ELSE "neutral"

RiskSentiment(vix_interp, yield_curve_interp) ==
    IF vix_interp = "low_volatility" /\ yield_curve_interp # "inverted" THEN "risk_on"
    ELSE IF vix_interp = "high_volatility" \/ yield_curve_interp = "inverted" THEN "risk_off"
    ELSE "neutral"

\* rating["inflation_environment"]
InflationEnvironment(econ_interp) ==
    IF "inflation" \in DOMAIN econ_interp
    THEN IF econ_interp["inflation"] = "high" THEN "inflationary"
         ELSE IF econ_interp["inflation"] = "low" THEN "deflationary"
         ELSE "stable"
    ELSE "None"

\* rating["growth_outlook"]
GrowthOutlook(econ_interp) ==
    IF "growth" \in DOMAIN econ_interp THEN econ_interp["growth"] ELSE "None"

\* rating["overall_environment"]
OverallEnvironmentBearishFirst(risk_sentiment, inflation_environment, growth_outlook) ==
    IF risk_sentiment = "risk_off" \/ growth_outlook = "contracting" THEN "bearish"
    ELSE IF risk_sentiment = "risk_on" /\ inflation_environment # "inflationary"
    THEN "bullish"
    ELSE "neutral"

OverallEnvironment(risk_sentiment, inflation_environment, growth_outlook) ==
    IF risk_sentiment = "risk_on" /\ inflation_environment # "inflationary" THEN "bullish"
    ELSE IF risk_sentiment = "risk_off" \/ growth_outlook = "contracting" THEN "bearish"
    ELSE "neutral"

\* the rating rate_macro_environment builds from the stored indicators
Rating(ind, nowT) ==
    LET risk == RiskSentiment(ind["vix"].interpretation,
                              ind["treasury_yields"].interpretation)
        infl == InflationEnvironment(ind["economic_data"].interpretation)
        growth == GrowthOutlook(ind["economic_data"].interpretation)
    IN  [risk_sentiment |-> risk,
         inflation_environment |-> infl,
         growth_outlook |-> growth,
         overall_environment |-> OverallEnvironment(risk, infl, growth),
         timestamp |-> nowT]

\* the bias suggest_es_bias builds for a bullish or bearish environment
DirectionalBiasInverted(overall_env, nowT) ==
    [direction |-> IF overall_env = "bullish" THEN "short" ELSE "long",
     confidence |-> "high",
     rationale |-> <<IF overall_env = "bullish"
                     THEN "Overall macro environment is bullish"
                     ELSE "Overall macro environment is bearish">>,
     timestamp |-> nowT]

DirectionalBias(overall_env, nowT) ==
    [direction |-> IF overall_env = "bullish" THEN "long" ELSE "short",
     confidence |-> "high",
     rationale |-> <<IF overall_env = "bullish"
                     THEN "Overall macro environment is bullish"
                     ELSE "Overall macro environment is bearish">>,
     timestamp |-> nowT]

\* the biases the tie-break pass may reach for a neutral environment: a
\* direction drawn from a further indicator, or the fallback neutral / low
TieBreakBiases(nowT) ==
    {[direction |-> d, confidence |-> "low",
      rationale |-> <<"Tie-break on a further indicator">>, timestamp |-> nowT] :
        d \in {"long", "short", "neutral"}}

\* the biases suggest_es_bias may build from a stored rating
Biases(rating, nowT) ==
    IF rating.overall_environment \in {"bullish", "bearish"}
    THEN {DirectionalBias(rating.overall_environment, nowT)}
    ELSE TieBreakBiases(nowT)

\* custom thresholds a configuration file may set for the analyzer
MacroConfigs ==
    {DefaultMacroConfig, [DefaultMacroConfig EXCEPT !.inflation.high = Rat(40, 10)]}

\* a freshly constructed analyzer
InitMacro ==
    /\ macro_config \in MacroConfigs
    /\ indicators = EmptyDict
    /\ environment_rating = EmptyDict
    /\ es_bias = NoneVal
    /\ analyzed_data = <<>>
    /\ agent_config = DefaultAgentConfig
    /\ pc = "idle"
    /\ results = EmptyDict
    /\ config = DefaultThresholds
    /\ calendar = DefaultCalendar
    /\ volume_data = EmptyDict
    /\ oi_data = EmptyDict
    /\ alerts = <<>>
    /\ now = NowStart
    /\ call = NoCall
    /\ ret = <<>>
    /\ raised = "none"
    /\ prev = NoPrev

\* what every analyzer operation leaves alone, and the record of the call
MacroCall(op) ==
    /\ call' = [op |-> op]
    /\ raised' = "none"
    /\ prev' = [call |-> call, ret |-> ret, raised |-> raised]
    /\ UNCHANGED <<config, calendar, volume_data, oi_data, alerts, now, macro_config>>
    /\ UNCHANGED <<analyzed_data, agent_config, pc, results>>

\* fetch_vix(), the page showing q
FetchVix(q) ==
    /\ MacroCall("fetch_vix")
    /\ IF q = NoneVal
       THEN /\ ret' = NoneVal
            /\ UNCHANGED indicators
       ELSE /\ indicators' = DictPut(indicators, "vix", VixReading(macro_config, q, now))
            /\ ret' = q
    /\ UNCHANGED <<environment_rating, es_bias>>

\* fetch_treasury_yields(), the pages showing q; failed: a request or a
\* conversion raised
FetchTreasuryYields(q, failed) ==
    /\ MacroCall("fetch_treasury_yields")
    /\ IF failed
       THEN /\ ret' = EmptyDict
            /\ UNCHANGED indicators
       ELSE /\ indicators' = DictPut(indicators, "treasury_yields",
                                YieldsReading(macro_config, WithSpreads(q), now))
            /\ ret' = WithSpreads(q)
    /\ UNCHANGED <<environment_rating, es_bias>>

\* fetch_economic_data(use_mock_data)
FetchEconomicData(use_mock_data) ==
    /\ MacroCall("fetch_economic_data")
    /\ indicators' = DictPut(indicators, "economic_data",
                         EconomicReading(macro_config, EconomicData(use_mock_data), now))
    /\ ret' = EconomicData(use_mock_data)
    /\ UNCHANGED <<environment_rating, es_bias>>

\* rate_macro_environment()
RateMacroEnvironmentDefaulting ==
    /\ MacroCall("rate_macro_environment")
    /\ IF ~(RequiredIndicators \subseteq DOMAIN indicators)
       THEN /\ environment_rating' =
                  [risk_sentiment |-> "neutral", inflation_environment |-> "None",
                   growth_outlook |-> "None", overall_environment |-> "neutral",
                   timestamp |-> now]
            /\ ret' = environment_rating'
       ELSE /\ environment_rating' = Rating(indicators, now)
            /\ ret' = environment_rating'
    /\ UNCHANGED <<indicators, es_bias>>

RateMacroEnvironment ==
    /\ MacroCall("rate_macro_environment")
    /\ IF ~(RequiredIndicators \subseteq DOMAIN indicators)
       THEN /\ ret' = NoneVal
            /\ UNCHANGED environment_rating
       ELSE /\ environment_rating' = Rating(indicators, now)
            /\ ret' = environment_rating'
    /\ UNCHANGED <<indicators, es_bias>>

\* suggest_es_bias()
SuggestEsBias ==
    /\ MacroCall("suggest_es_bias")
    /\ IF environment_rating = EmptyDict
       THEN /\ ret' = NoneVal
            /\ UNCHANGED es_bias
       ELSE \E bias \in Biases(environment_rating, now) :
                /\ es_bias' = bias
                /\ ret' = bias
    /\ UNCHANGED <<indicators, environment_rating>>

\* time passes between two calls of the analyzer
MacroTick ==
    /\ now + ClockStep <= NowStart + MaxMacroClockSteps * ClockStep
    /\ now' = now + ClockStep
    /\ UNCHANGED <<config, calendar, volume_data, oi_data, alerts, call, ret, raised, prev>>
    /\ UNCHANGED <<macro_config, indicators, environment_rating, es_bias>>
    /\ UNCHANGED <<analyzed_data, agent_config, pc, results>>

NextMacro ==
    \/ \E q \in VixPages : FetchVix(q)
    \/ \E q \in YieldPages, failed \in BOOLEAN : FetchTreasuryYields(q, failed)
    \/ \E m \in BOOLEAN : FetchEconomicData(m)
    \/ RateMacroEnvironment
    \/ MacroTick

SpecMacro == InitMacro /\ [][NextMacro]_vars

\* the indicators an analyzer holds once the three fetches have succeeded
FetchedIndicators(cfg, nowT) ==
    {[k \in RequiredIndicators |->
        IF k = "vix" THEN VixReading(cfg, v, nowT)
        ELSE IF k = "treasury_yields" THEN YieldsReading(cfg, WithSpreads(y), nowT)
        ELSE EconomicReading(cfg, EconomicData(m), nowT)] :
       v \in VixQuotes, y \in YieldPages, m \in BOOLEAN}

\* an analyzer before its first rating: nothing fetched yet, or all fetched
InitBias ==
    /\ macro_config \in MacroConfigs
    /\ indicators \in {EmptyDict} \cup FetchedIndicators(macro_config, NowStart)
    /\ environment_rating = EmptyDict
    /\ es_bias = NoneVal
    /\ analyzed_data = <<>>
    /\ agent_config = DefaultAgentConfig
    /\ pc = "idle"
    /\ results = EmptyDict
    /\ config = DefaultThresholds
    /\ calendar = DefaultCalendar
    /\ volume_data = EmptyDict
    /\ oi_data = EmptyDict
    /\ alerts = <<>>
    /\ now = NowStart
    /\ call = NoCall
    /\ ret = <<>>
    /\ raised = "none"
    /\ prev = NoPrev

NextBias ==
    \/ RateMacroEnvironment
    \/ SuggestEsBias
    \/ MacroTick

SpecBias == InitBias /\ [][NextBias]_vars

----------------------------------------------------------------------------
(* NewsScraperSentiment: generate_position_suggestions *)

\* VADER compound scores, in hundredths, of the analysed articles drawn
ScoreValues == {-80, 0, 30, 80}

\* analyze_sentiment: the category of a compound score
SentimentOf(score) ==
    IF score >= 5 THEN "bullish"
    ELSE IF score <= -5 THEN "bearish"
    ELSE "neutral"

\* the symbols an analysed article may mention: its 'tickers' and 'crypto'
Taggings ==
    {[tickers |-> <<"AAPL">>, crypto |-> <<>>],
     [tickers |-> <<"AAPL">>, crypto |-> <<"BTC">>],
     [tickers |-> <<"TSLA">>, crypto |-> <<>>]}

\* the i-th analysed article; its title tells the articles apart
AnalyzedArticle(i, score, tags) ==
    [title |-> i, url |-> i, source |-> "cnbc", sentiment |-> SentimentOf(score),
     score |-> score, tickers |-> tags.tickers, crypto |-> tags.crypto]

\* the lists analyze_sentiment may leave in self.analyzed_data
AnalyzedDataOfLen(n) ==
    {[i \in 1..n |-> AnalyzedArticle(i, sc[i], tg[i])] :
        sc \in [1..n -> ScoreValues], tg \in [1..n -> Taggings]}

\* articles all mentioning AAPL: b bullish, then br bearish, then n neutral
CountedArticles(b, br, n) ==
    [i \in 1..(b + br + n) |->
        AnalyzedArticle(i, IF i <= b THEN 30 ELSE IF i <= b + br THEN -80 ELSE 0,
                        [tickers |-> <<"AAPL">>, crypto |-> <<>>])]

\* the entry appended to a symbol's 'articles'
ArticleEntry(article) ==
    [title |-> article.title, url |-> article.url, source |-> article.source,
     sentiment |-> article.sentiment, score |-> article.score]

\* the loop over the articles and over article[field]: one pair per mention,
\* in the order of the appends
RECURSIVE Mentions(_, _)
Mentions(data, field) ==
    IF data = <<>> THEN <<>>
    ELSE LET article == Head(data)
         IN  [k \in DOMAIN article[field] |->
                 [symbol |-> article[field][k], entry |-> ArticleEntry(article)]]
             \o Mentions(Tail(data), field)

\* the keys of ticker_sentiment (crypto_sentiment) in insertion order
RECURSIVE KeysInOrder(_)
KeysInOrder(mentions) ==
    IF mentions = <<>> THEN <<>>
    ELSE <<Head(mentions).symbol>>
         \o KeysInOrder(SelectSeq(Tail(mentions),
                                  LAMBDA m : m.symbol # Head(mentions).symbol))

\* data['articles'] of one symbol
ArticlesOf(mentions, symbol) ==
    LET own == SelectSeq(mentions, LAMBDA m : m.symbol = symbol)
    IN  [k \in DOMAIN own |-> own[k].entry]

\* data[sentiment] of one symbol
SentimentCount(articles, sentiment) ==
    Len(SelectSeq(articles, LAMBDA a : a.sentiment = sentiment))

\* the direction with more articles, without the margin
OverallSentimentPlurality(bullish, bearish) ==
    IF bullish > bearish THEN "bullish"
    ELSE IF bearish > bullish THEN "bearish"
    ELSE "neutral"

\* the overall sentiment: x > y * 1.5 is 2x > 3y
OverallSentiment(bullish, bearish) ==
    IF 2 * bullish > 3 * bearish THEN "bullish"
    ELSE IF 2 * bearish > 3 * bullish THEN "bearish"
    ELSE "neutral"

\* sorted(articles, key=lambda x: abs(x['score'])) without reverse=True
RECURSIVE SortByAbsScoreAscending(_)
SortByAbsScoreAscending(articles) ==
    IF articles = <<>> THEN <<>>
    ELSE LET m == CHOOSE i \in 1..Len(articles) :
                    /\ \A j \in 1..Len(articles) :
                          Abs(articles[i].score) <= Abs(articles[j].score)
                    /\ \A j \in 1..(i - 1) :
                          Abs(articles[j].score) # Abs(articles[i].score)
         IN  <<articles[m]>> \o SortByAbsScoreAscending(RemoveAt(articles, m))

\* sorted(articles, key=lambda x: abs(x['score']), reverse=True): greatest
\* absolute score first; sorted() is stable also with reverse=True, so
\* articles of equal absolute score stay in their order
RECURSIVE SortByAbsScore(_)
SortByAbsScore(articles) ==
    IF articles = <<>> THEN <<>>
    ELSE LET m == CHOOSE i \in 1..Len(articles) :
                    /\ \A j \in 1..Len(articles) :
                          Abs(articles[i].score) >= Abs(articles[j].score)
                    /\ \A j \in 1..(i - 1) :
                          Abs(articles[j].score) # Abs(articles[i].score)
         IN  <<articles[m]>> \o SortByAbsScore(RemoveAt(articles, m))

\* the number of supporting articles kept: the slice [:3]
SupportingKept == 3

\* the minimum number of articles of a suggestion
MinArticles == 2

\* (total / total) * 100
ConfidenceOfTotal(count, total) == Rat(100 * total, total)

\* the percentage (count / total) * 100, as a fraction
Confidence(count, total) == Rat(100 * count, total)

\* the suggestion built for one symbol
Suggestion(symbol, type, articles) ==
    LET bullish == SentimentCount(articles, "bullish")
        bearish == SentimentCount(articles, "bearish")
        neutral == SentimentCount(articles, "neutral")
        total_articles == bullish + bearish + neutral
        sentiment == OverallSentiment(bullish, bearish)
        sorted == SortByAbsScore(articles)
    IN  [symbol |-> symbol,
         type |-> type,
         sentiment |-> sentiment,
         confidence |-> Confidence(SentimentCount(articles, sentiment), total_articles),
         article_count |-> total_articles,
         supporting_articles |->
            SubSeq(sorted, 1, IF Len(sorted) < SupportingKept THEN Len(sorted)
                              ELSE SupportingKept),
         rationale |-> <<"Based on", total_articles, "recent articles with",
                         SentimentCount(articles, sentiment), "sentiment majority.">>]

\* the same loops without the test of total_articles
SuggestionsOfZeroFilled(data, field, type) ==
    LET mentions == Mentions(data, field)
        keys == KeysInOrder(mentions)
    IN  [k \in DOMAIN keys |-> Suggestion(keys[k], type, ArticlesOf(mentions, keys[k]))]

\* the suggestions of the stock loop (field 'tickers') or the crypto loop
\* (field 'crypto'), in the order of the loop
SuggestionsOf(data, field, type) ==
    LET mentions == Mentions(data, field)
        keys == SelectSeq(KeysInOrder(mentions),
                          LAMBDA sym : Len(ArticlesOf(mentions, sym)) >= MinArticles)
    IN  [k \in DOMAIN keys |-> Suggestion(keys[k], type, ArticlesOf(mentions, keys[k]))]

\* the final sort of each list by confidence, greatest first, stable
RECURSIVE SortByConfidence(_)
SortByConfidence(suggestions) ==
    IF suggestions = <<>> THEN <<>>
    ELSE LET m == CHOOSE i \in 1..Len(suggestions) :
                    /\ \A j \in 1..Len(suggestions) :
                          ~RatLess(suggestions[i].confidence, suggestions[j].confidence)
                    /\ \A j \in 1..(i - 1) :
                          RatLess(suggestions[j].confidence, suggestions[i].confidence)
         IN  <<suggestions[m]>> \o SortByConfidence(RemoveAt(suggestions, m))

\* what generate_position_suggestions returns
PositionSuggestions(data) ==
    IF data = <<>> THEN [bullish |-> <<>>, bearish |-> <<>>, neutral |-> <<>>]
    ELSE LET all == SuggestionsOf(data, "tickers", "stock")
                    \o SuggestionsOf(data, "crypto", "crypto")
         IN  [s \in {"bullish", "bearish", "neutral"} |->
                 SortByConfidence(SelectSeq(all, LAMBDA x : x.sentiment = s))]

\* a scraper whose articles have been analysed
InitNews ==
    /\ \/ \E n \in 0..MaxArticles : analyzed_data \in AnalyzedDataOfLen(n)
       \/ analyzed_data \in {CountedArticles(6, 3, 1), CountedArticles(5, 4, 0)}
    /\ macro_config = DefaultMacroConfig
    /\ indicators = EmptyDict
    /\ environment_rating = EmptyDict
    /\ es_bias = NoneVal
    /\ agent_config = DefaultAgentConfig
    /\ pc = "idle"
    /\ results = EmptyDict
    /\ config = DefaultThresholds
    /\ calendar = DefaultCalendar
    /\ volume_data = EmptyDict
    /\ oi_data = EmptyDict
    /\ alerts = <<>>
    /\ now = NowStart
    /\ call = NoCall
    /\ ret = <<>>
    /\ raised = "none"
    /\ prev = NoPrev

\* generate_position_suggestions()
GeneratePositionSuggestions ==
    /\ call' = [op |-> "generate_position_suggestions"]
    /\ ret' = PositionSuggestions(analyzed_data)
    /\ raised' = "none"
    /\ UNCHANGED prev
    /\ UNCHANGED <<config, calendar, volume_data, oi_data, alerts, now>>
    /\ UNCHANGED <<macro_config, indicators, environment_rating, es_bias>>
    /\ UNCHANGED <<analyzed_data, agent_config, pc, results>>

NextNews == GeneratePositionSuggestions

SpecNews == InitNews /\ [][NextNews]_vars

----------------------------------------------------------------------------
(* SentimentCrossChecker: divergence between two consensus views *)

\* the two thresholds exchanged
SentimentThresholdsSwapped == [divergence |-> Rat(7, 10), consensus |-> Rat(3, 10)]

\* config["sentiment_thresholds"]
SentimentThresholds == [divergence |-> Rat(3, 10), consensus |-> Rat(7, 10)]

\* the divergence threshold in percentage points
DivergenceThreshold ==
    (100 * SentimentThresholds.divergence.num) \div SentimentThresholds.divergence.den

\* the symbols and the consensus of a symbol in the views compared
ViewSymbols == {"AAPL", "BTC"}

ConfidenceValues == {30, 40, 50, 80}

Consensus == [sentiment : {"bullish", "bearish", "neutral"}, confidence : ConfidenceValues]

\* every consensus for AAPL, one for BTC
ConsensusOf(symbol) ==
    IF symbol = "AAPL" THEN Consensus
    ELSE {[sentiment |-> "neutral", confidence |-> 50]}

Views ==
    UNION {{view \in [d -> Consensus] : \A symbol \in d : view[symbol] \in ConsensusOf(symbol)} :
              d \in SUBSET ViewSymbols}

\* bullish -> +confidence_pct, bearish -> -confidence_pct, neutral -> 0
ConfidenceSigned(consensus) ==
    IF consensus.sentiment = "bullish" THEN consensus.confidence
    ELSE IF consensus.sentiment = "bearish" THEN -consensus.confidence
    ELSE 0

Magnitude(a, b) == Abs(ConfidenceSigned(a) - ConfidenceSigned(b))

OppositeSigns(a, b) ==
    \/ a.sentiment = "bullish" /\ b.sentiment = "bearish"
    \/ a.sentiment = "bearish" /\ b.sentiment = "bullish"

Classification(a, b) ==
    IF Magnitude(a, b) < DivergenceThreshold THEN "aligned"
    ELSE IF Magnitude(a, b) >= 2 * DivergenceThreshold /\ OppositeSigns(a, b)
    THEN "strong_divergence"
    ELSE "mild_divergence"

\* the flags of the symbols present in both views
Divergences(view_a, view_b) ==
    [symbol \in (DOMAIN view_a) \cap (DOMAIN view_b) |->
        [magnitude |-> Magnitude(view_a[symbol], view_b[symbol]),
         classification |-> Classification(view_a[symbol], view_b[symbol])]]

\* a cross-checker that has compared nothing yet
InitCrossCheck ==
    /\ InitCommon
    /\ config = DefaultThresholds
    /\ volume_data = EmptyDict
    /\ oi_data = EmptyDict

\* the comparison of two views
DetectDivergences(view_a, view_b) ==
    /\ call' = [op |-> "detect_divergences", view_a |-> view_a, view_b |-> view_b]
    /\ ret' = Divergences(view_a, view_b)
    /\ raised' = "none"
    /\ UNCHANGED prev
    /\ UNCHANGED <<config, calendar, volume_data, oi_data, alerts, now>>
    /\ UNCHANGED <<macro_config, indicators, environment_rating, es_bias>>
    /\ UNCHANGED <<analyzed_data, agent_config, pc, results>>

NextCrossCheck == \E view_a, view_b \in Views : DetectDivergences(view_a, view_b)

SpecCrossCheck == InitCrossCheck /\ [][NextCrossCheck]_vars

----------------------------------------------------------------------------
(* MarketAIAgent: the modules and run_all *)

Modules ==
    {"news_sentiment", "macro_sentiment", "cme_volume", "sentiment_crosscheck",
     "report_generator"}

\* custom configurations that disable some of the modules
DisablingConfigs ==
    {DictNode([modules |->
        DictNode([m \in ms |-> DictNode([enabled |-> Leaf(FALSE)])])]) :
            ms \in SUBSET Modules}

\* _init_modules: the module object exists when its 'enabled' option is true
ModuleEnabled(cfg, m) == cfg.items["modules"].items[m].items["enabled"].value

\* what a stage may do when its module exists: return, or raise an Exception
Outcomes == {"ok", "raises"}

\* the analysed articles a run of the news stage may find
ScrapedData == {<<>>, CountedArticles(2, 0, 0)}

\* what run_<stage> returns: None when the module is disabled or an
\* exception was caught, the stage's result otherwise
StageResult(enabled, outcome, value) ==
    IF ~enabled THEN NoneVal
    ELSE IF outcome = "raises" THEN NoneVal
    ELSE value

\* the statement of run_all that follows a stage, were an exception in a
\* stage to end the run
StageAfterAborting(stage, outcome) ==
    IF outcome = "raises" THEN "return"
    ELSE IF stage = "news" THEN "macro"
    ELSE IF stage = "macro" THEN "cme"
    ELSE IF stage = "cme" THEN "sentiment"
    ELSE IF stage = "sentiment" THEN "report"
    ELSE "return"

\* the statement of run_all that follows a stage
StageAfter(stage, outcome) ==
    IF stage = "news" THEN "macro"
    ELSE IF stage = "macro" THEN "cme"
    ELSE IF stage = "cme" THEN "sentiment"
    ELSE IF stage = "sentiment" THEN "report"
    ELSE "return"

\* an agent constructed with a custom configuration
InitAgent ==
    /\ InitCommon
    /\ config = DefaultThresholds
    /\ volume_data = EmptyDict
    /\ oi_data = EmptyDict

\* MarketAIAgent(config_path): the custom configuration is merged in
LoadAgentConfig(custom_config) ==
    /\ pc = "idle"
    /\ call.op = "none"
    /\ call' = [op |-> "MarketAIAgent", custom_config |-> custom_config]
    /\ agent_config' = UpdateConfig(agent_config, custom_config)
    /\ UNCHANGED <<config, calendar, volume_data, oi_data, alerts, now, ret, raised, prev>>
    /\ UNCHANGED <<macro_config, indicators, environment_rating, es_bias>>
    /\ UNCHANGED <<analyzed_data, pc, results>>

\* one stage of run_all: the local variable 'key' gets what run_<stage> returns
StageStep(stage, module, key, outcome, value, callrec) ==
    /\ pc = stage
    /\ \/ ModuleEnabled(agent_config, module)
       \/ outcome = "ok"
    /\ call' = [k \in DOMAIN callrec \cup {"outcome"} |->
                  IF k = "outcome"
                  THEN (IF ModuleEnabled(agent_config, module) THEN outcome ELSE "disabled")
                  ELSE callrec[k]]
    /\ results' = DictPut(results, key,
                          StageResult(ModuleEnabled(agent_config, module), outcome, value))
    /\ pc' = StageAfter(stage, outcome)
    /\ UNCHANGED <<config, calendar, volume_data, oi_data, alerts, now, ret, raised, prev>>
    /\ UNCHANGED <<macro_config, indicators, environment_rating, es_bias>>
    /\ UNCHANGED agent_config

\* run_all(): the call begins
RunAll ==
    /\ pc = "idle"
    /\ call' = [op |-> "run_all"]
    /\ pc' = "news"
    /\ results' = EmptyDict
    /\ UNCHANGED <<config, calendar, volume_data, oi_data, alerts, now, ret, raised, prev>>
    /\ UNCHANGED <<macro_config, indicators, environment_rating, es_bias>>
    /\ UNCHANGED <<analyzed_data, agent_config>>

\* news_results = self.run_news_sentiment()
RunNewsSentiment(outcome, data) ==
    /\ StageStep("news", "news_sentiment", "news_results", outcome,
                 PositionSuggestions(data), [op |-> "run_news_sentiment"])
    /\ analyzed_data' = IF ModuleEnabled(agent_config, "news_sentiment") /\ outcome = "ok"
                        THEN data ELSE analyzed_data

\* macro_results = self.run_macro_sentiment()
RunMacroSentiment(outcome) ==
    /\ StageStep("macro", "macro_sentiment", "macro_results", outcome,
                 [analysis |-> "macro_sentiment"], [op |-> "run_macro_sentiment"])
    /\ UNCHANGED analyzed_data

\* cme_results = self.run_cme_volume()
RunCmeVolume(outcome) ==
    /\ StageStep("cme", "cme_volume", "cme_results", outcome,
                 [analysis |-> "cme_volume"], [op |-> "run_cme_volume"])
    /\ UNCHANGED analyzed_data

\* sentiment_results = self.run_sentiment_crosscheck(news_sentiment=news_results)
RunSentimentCrosscheck(outcome) ==
    /\ StageStep("sentiment", "sentiment_crosscheck", "sentiment_results", outcome,
                 [analysis |-> "sentiment_crosscheck"],
                 [op |-> "run_sentiment_crosscheck",
                  news_sentiment |-> results["news_results"]])
    /\ UNCHANGED analyzed_data

\* report_files = self.run_report_generator()
RunReportGenerator(outcome) ==
    /\ StageStep("report", "report_generator", "report_files", outcome,
                 [analysis |-> "report_generator"], [op |-> "run_report_generator"])
    /\ UNCHANGED analyzed_data

\* return {...}: the five local variables
ReturnResults ==
    /\ pc = "return"
    /\ call' = [op |-> "run_all"]
    /\ ret' = results
    /\ pc' = "done"
    /\ UNCHANGED <<config, calendar, volume_data, oi_data, alerts, now, raised, prev>>
    /\ UNCHANGED <<macro_config, indicators, environment_rating, es_bias>>
    /\ UNCHANGED <<analyzed_data, agent_config, results>>

NextAgent ==
    \/ \E custom_config \in DisablingConfigs : LoadAgentConfig(custom_config)
    \/ RunAll
    \/ \E outcome \in Outcomes, data \in ScrapedData : RunNewsSentiment(outcome, data)
    \/ \E outcome \in Outcomes : RunMacroSentiment(outcome)
    \/ \E outcome \in Outcomes : RunCmeVolume(outcome)
    \/ \E outcome \in Outcomes : RunSentimentCrosscheck(outcome)
    \/ \E outcome \in Outcomes : RunReportGenerator(outcome)
    \/ ReturnResults

SpecAgent == InitAgent /\ [][NextAgent]_vars

----------------------------------------------------------------------------
(* Custom configuration files *)

\* custom configurations of the agent that override one nested option
NestedOverrides ==
    {DictNode([modules |-> DictNode([cme_volume |->
        DictNode([contracts |-> Leaf(<<"ES">>)])])]),
     DictNode([modules |-> DictNode([news_sentiment |->
        DictNode([max_articles_per_source |-> Leaf(5)])])]),
     DictNode([modules |-> DictNode([report_generator |->
        DictNode([email |-> DictNode([enabled |-> Leaf(TRUE)])])])]),
     DictNode([modules |-> DictNode([report_generator |->
        DictNode([format |-> Leaf("markdown")])])]),
     DictNode([use_mock_data |-> Leaf(FALSE)])}

\* the options a custom configuration of the tracker overrides
ThresholdOverrides ==
    [volume_spike |-> Rat(2, 1), oi_change |-> Rat(1, 5), alert_period |-> 14]

Restrict(f, keys) == [k \in keys |-> f[k]]

\* custom configurations of the tracker: 'thresholds' and 'economic_calendar'
\* are given or not, each with some of its options
TrackerCustomConfigs ==
    LET thresholds == {Restrict(ThresholdOverrides, ks) :
                          ks \in SUBSET DOMAIN ThresholdOverrides}
        economic_calendar == {Restrict(DefaultCalendar, ks) :
                                 ks \in SUBSET DOMAIN DefaultCalendar}
    IN  {EmptyDict}
        \cup {[k \in {"thresholds"} |-> t] : t \in thresholds}
        \cup {[k \in {"economic_calendar"} |-> e] : e \in economic_calendar}
        \cup {[k \in {"thresholds", "economic_calendar"} |->
                 IF k = "thresholds" THEN t ELSE e] :
                    t \in thresholds, e \in economic_calendar}

\* CMEVolumeTracker(config_path): self.config.update(custom_config)
LoadTrackerConfig(custom_config) ==
    /\ call.op = "none"
    /\ call' = [op |-> "CMEVolumeTracker", custom_config |-> custom_config]
    /\ config' = IF "thresholds" \in DOMAIN custom_config
                 THEN custom_config["thresholds"] ELSE config
    /\ calendar' = IF "economic_calendar" \in DOMAIN custom_config
                   THEN custom_config["economic_calendar"] ELSE calendar
    /\ UNCHANGED <<volume_data, oi_data, alerts, now, ret, raised, prev>>
    /\ UNCHANGED <<macro_config, indicators, environment_rating, es_bias>>
    /\ UNCHANGED <<analyzed_data, agent_config, pc, results>>

NextConfig ==
    \/ \E custom_config \in NestedOverrides \cup DisablingConfigs :
          LoadAgentConfig(custom_config)
    \/ \E custom_config \in TrackerCustomConfigs : LoadTrackerConfig(custom_config)

SpecConfig == InitAgent /\ [][NextConfig]_vars

----------------------------------------------------------------------------
(* Properties of the detectors *)

EventDates(evs) == {evs[i].date : i \in DOMAIN evs}

\* the last call was detect_volume_spikes on a stored series and it returned
SpikesReturned ==
    /\ call.op = "detect_volume_spikes"
    /\ call.contract \in DOMAIN volume_data
    /\ raised = "none"

\* the last call was detect_oi_changes on a stored series and it returned
ChangesReturned ==
    /\ call.op = "detect_oi_changes"
    /\ call.contract \in DOMAIN oi_data
    /\ raised = "none"

\* the series the last call was about, in date order
VolumeInOrder == SortByDate(volume_data[call.contract])
OIInOrder == SortByDate(oi_data[call.contract])

\* the threshold in force in the last detect_oi_changes call
OIThresholdInForce ==
    IF call.threshold = NoneVal THEN config.oi_change ELSE call.threshold

\* the baseline of the specification: the mean of the up-to-w points before row i
PrecedingSum(df, i, w) == WindowSum(df, RollingWindowPreceding(i, w))
PrecedingCount(i, w) == Cardinality(RollingWindowPreceding(i, w))

\* row i is a spike against that baseline: value / (sum / count) > t
SpikeOverPreceding(df, i, w, t) ==
    /\ PrecedingCount(i, w) >= 1
    /\ PrecedingSum(df, i, w) > 0
    /\ df[i].volume * PrecedingCount(i, w) * t.den > t.num * PrecedingSum(df, i, w)

\* (C1, C4, C5 and C6 are stated for valid thresholds, t > 0.)

\* C1: detect_volume_spikes emits an event for exactly the points whose value
\* divided by the mean of the up-to-w preceding points exceeds t (the point
\* itself is not part of its own baseline).
C1_SpikesOverPrecedingMean ==
    (SpikesReturned /\ config.volume_spike.num > 0) =>
        EventDates(ret) =
            {VolumeInOrder[i].date : i \in
                {j \in 1..Len(VolumeInOrder) :
                    SpikeOverPreceding(VolumeInOrder, j, call.lookback, config.volume_spike)}}

\* C2: for a spike threshold t > 0, detect_volume_spikes never emits an event
\* for the earliest-dated point of a series (it has no preceding point).
C2_FirstPointNeverSpike ==
    (SpikesReturned /\ config.volume_spike.num > 0 /\ Len(VolumeInOrder) >= 1) =>
        VolumeInOrder[1].date \notin EventDates(ret)

\* the synthetic run: 20 points of 100, 500 injected at index 15, w = 10, t = 1.5
InjectedRun ==
    /\ SpikesReturned
    /\ volume_data[call.contract] = InjectedSeries(15)
    /\ call.lookback = 10
    /\ config.volume_spike = Rat(3, 2)

\* C3: on the constant series with one injected point of 500 at index 15,
\* w = 10 and t = 1.5, detect_volume_spikes emits exactly one event, dated as
\* the point at index 15; no later point is reported.
C3_InjectedPointOnly ==
    InjectedRun => (Len(ret) = 1 /\ ret[1].date = InjectedSeries(15)[16].date
                                 /\ ret[1].volume = 500)

C3_Witness == InjectedRun /\ Len(ret) = 1

\* C4: detect_oi_changes emits an event for exactly the points i >= 1 with
\* |(value[i] - value[i-1]) / value[i-1]| > t over consecutive open_interest
\* values, and the reported pct_change equals that quotient.
C4_PeriodOverPeriodChange ==
    (ChangesReturned /\ OIThresholdInForce.num > 0) =>
        LET df == OIInOrder
            t == OIThresholdInForce
            Diff(i) == df[i].open_interest - df[i - 1].open_interest
            Flagged == {i \in 2..Len(df) :
                          /\ df[i - 1].open_interest # 0
                          /\ Abs(Diff(i)) * t.den > t.num * Abs(df[i - 1].open_interest)}
        IN  /\ EventDates(ret) = {df[i].date : i \in Flagged}
            /\ \A k \in DOMAIN ret : \A i \in 2..Len(df) :
                  df[i].date = ret[k].date =>
                     ret[k].pct_change.num * df[i - 1].open_interest
                        = Diff(i) * ret[k].pct_change.den

\* C5: a point whose spike baseline is 0, or whose predecessor open interest
\* is 0, gets no event, and the detector raises no error.  (The spike baseline
\* is taken here as the code computes it, the avg_volume column.)
C5_ZeroBaselineSkipped ==
    /\ (SpikesReturned /\ config.volume_spike.num > 0) =>
          \A i \in 1..Len(VolumeInOrder) :
             RollingMean(VolumeInOrder, i, call.lookback).sum = 0
                => VolumeInOrder[i].date \notin EventDates(ret)
    /\ (call.op = "detect_oi_changes" /\ call.contract \in DOMAIN oi_data
          /\ OIThresholdInForce.num > 0) =>
          /\ raised = "none"
          /\ \A i \in 2..Len(OIInOrder) :
                OIInOrder[i - 1].open_interest = 0
                   => OIInOrder[i].date \notin EventDates(ret)

\* C6: both detectors return an empty list, without raising, for a contract
\* with no stored series, for an empty series and for a one-point series; and
\* detect_oi_changes never reports the earliest-dated point of a series.
C6_ShortSeriesEmpty ==
    /\ (call.op = "detect_volume_spikes" /\ call.lookback > 0
          /\ config.volume_spike.num > 0) =>
          ((call.contract \notin DOMAIN volume_data
              \/ Len(volume_data[call.contract]) <= 1)
             => (ret = <<>> /\ raised = "none"))
    /\ call.op = "detect_oi_changes" =>
          /\ (call.contract \notin DOMAIN oi_data
                \/ Len(oi_data[call.contract]) <= 1)
               => (ret = <<>> /\ raised = "none")
          /\ (call.contract \in DOMAIN oi_data /\ Len(OIInOrder) >= 1)
               => OIInOrder[1].date \notin EventDates(ret)

\* C7: a threshold <= 0 or a lookback window <= 0 is rejected at
\* configuration: no detection call ever executes with such a value.
C7_InvalidConfigurationRejected ==
    /\ (call.op = "detect_volume_spikes" /\ call.contract \in DOMAIN volume_data) =>
          (config.volume_spike.num > 0 /\ call.lookback > 0)
    /\ (call.op = "detect_oi_changes" /\ call.contract \in DOMAIN oi_data) =>
          OIThresholdInForce.num > 0

\* C8: the detectors are pure with respect to the tracker: a call leaves the
\* stored volume series, open-interest series and alerts unchanged, and a
\* call repeated with the same arguments returns an equal event list.
C8_DetectorsPure ==
    [][ /\ UNCHANGED <<volume_data, oi_data, alerts>>
        /\ call' = call => (ret' = ret /\ raised' = raised) ]_vars

\* a detector ran twice in a row with the same arguments on an unsorted series
C8_Witness ==
    /\ prev.call = call
    /\ call.op = "detect_volume_spikes"
    /\ SpikesReturned
    /\ ret # <<>>
    /\ prev.ret = ret
    /\ volume_data[call.contract] # VolumeInOrder

----------------------------------------------------------------------------
(* Properties of the calendar matcher *)

\* the entries of a result of one type about one calendar date
EntriesFor(evs, type, day) ==
    {k \in DOMAIN evs : evs[k].type = type /\ evs[k].date = day}

\* a point event of one kind is reported as the claim states it, window P days
PointEventAsClaimed(type, day, P) ==
    LET dist == Abs(call.date - Midnight(day))
    IN  /\ (EntriesFor(ret, type, day) # {}) <=> (dist <= P * TicksPerDay)
        /\ \A k \in EntriesFor(ret, type, day) :
              Abs(ret[k].days_away * TicksPerDay - dist) < TicksPerDay

\* (|d - e| is the length of time between the two datetimes; days_away may
\* round it to a whole day either way.)

\* C10: check_economic_events(d) includes a point event dated e exactly when
\* |d - e| <= 3 days for an FOMC meeting and exactly when |d - e| <= 2 days
\* for an economic release, and the reported days_away equals |d - e| in days.
C10_PointEventWindows ==
    call.op = "check_economic_events" =>
        /\ \A i \in DOMAIN calendar.fomc_meetings :
              PointEventAsClaimed("FOMC Meeting", calendar.fomc_meetings[i], 3)
        /\ \A i \in DOMAIN calendar.economic_releases :
              PointEventAsClaimed("Economic Release", calendar.economic_releases[i].date, 2)

\* a point event of one kind is matched alike by the last two calls when
\* their dates lie at the same distance before and after it
MirroredAlike(type, day) ==
    (call.date - Midnight(day) = Midnight(day) - prev.call.date) =>
        ((EntriesFor(ret, type, day) # {}) <=> (EntriesFor(prev.ret, type, day) # {}))

\* C11: point-event matching is symmetric in time: for all datetimes d and e,
\* time of day included, a date some days and hours before an event is matched
\* exactly when the date the same distance after the event is matched.
\* (call and prev.call are two calls on the same calendar.)
C11_PointMatchSymmetric ==
    (call.op = "check_economic_events" /\ prev.call.op = "check_economic_events") =>
        /\ \A i \in DOMAIN calendar.fomc_meetings :
              MirroredAlike("FOMC Meeting", calendar.fomc_meetings[i])
        /\ \A i \in DOMAIN calendar.economic_releases :
              MirroredAlike("Economic Release", calendar.economic_releases[i].date)

\* the calendar day of a datetime
CalendarDay(t) == t \div TicksPerDay

\* the entries of a result about one earnings season
SeasonEntries(evs, season) ==
    {k \in DOMAIN evs :
        /\ evs[k].type \in {"Earnings Season", "Upcoming Earnings Season"}
        /\ evs[k].description = season.description
        /\ evs[k].start_date = season.start}

\* C12: for every earnings season [start, end] and every date whose calendar
\* day lies in [start, end], both end days included and whatever the time of
\* day, check_economic_events returns exactly one entry for that season, and
\* its type is 'Earnings Season'.
C12_CurrentSeasonInclusive ==
    call.op = "check_economic_events" =>
        \A i \in DOMAIN calendar.earnings_seasons :
            LET s == calendar.earnings_seasons[i]
                day == CalendarDay(call.date)
            IN  (s.start <= day /\ day <= s.end) =>
                    /\ Cardinality(SeasonEntries(ret, s)) = 1
                    /\ \A k \in SeasonEntries(ret, s) : ret[k].type = "Earnings Season"

\* C13: for every configured season, whatever its length, no entry is
\* returned for a date after the season's end, and an 'Upcoming Earnings
\* Season' entry is returned only for dates 1 to 5 days before the start,
\* with days_away that non-negative distance.
\* (The distance is counted in calendar days; days_away may differ from it
\* by the rounding of a time of day.)
C13_NeverAfterSeasonEnd ==
    call.op = "check_economic_events" =>
        \A i \in DOMAIN calendar.earnings_seasons :
            LET s == calendar.earnings_seasons[i]
                day == CalendarDay(call.date)
            IN  /\ (day > s.end) => (SeasonEntries(ret, s) = {})
                /\ \A k \in SeasonEntries(ret, s) :
                      ret[k].type = "Upcoming Earnings Season" =>
                          /\ (s.start - day) \in 1..5
                          /\ ret[k].days_away >= 0
                          /\ Abs(ret[k].days_away - (s.start - day)) <= 1

----------------------------------------------------------------------------
(* Properties of alert generation *)

\* C9: two generate_alerts calls on the same stored series and the same
\* calendar return equal alert lists, however much time passes between them.
\* (prev is the call just before the last one: nothing but the clock has
\* changed between the two calls.)
C9_AlertsIndependentOfClock ==
    (call.op = "generate_alerts" /\ prev.call = call) => ret = prev.ret

----------------------------------------------------------------------------
(* Properties of the environment rating and the ES bias *)

\* the last call was rate_macro_environment and it returned a rating; the
\* stored indicators are those it read (only the clock may have moved since)
Rated == call.op = "rate_macro_environment" /\ ret # NoneVal

VolatilityLow == indicators["vix"].interpretation = "low_volatility"
VolatilityHigh == indicators["vix"].interpretation = "high_volatility"
CurveInverted == indicators["treasury_yields"].interpretation = "inverted"

\* C14: risk_sentiment is risk_on exactly when volatility is low and the
\* yield curve is not inverted, risk_off exactly when volatility is high or
\* the yield curve is inverted, neutral in every remaining case; the first
\* two conditions never hold together.
C14_RiskSentimentRule ==
    Rated =>
        /\ (ret.risk_sentiment = "risk_on") <=> (VolatilityLow /\ ~CurveInverted)
        /\ (ret.risk_sentiment = "risk_off") <=> (VolatilityHigh \/ CurveInverted)
        /\ (ret.risk_sentiment = "neutral") <=>
              (~(VolatilityLow /\ ~CurveInverted) /\ ~(VolatilityHigh \/ CurveInverted))
        /\ ~((VolatilityLow /\ ~CurveInverted) /\ (VolatilityHigh \/ CurveInverted))

\* low volatility under an inverted curve: rated risk_off
C14_Witness ==
    Rated /\ VolatilityLow /\ CurveInverted /\ ret.risk_sentiment = "risk_off"

\* C15: overall_environment is bullish if risk_sentiment is risk_on and
\* inflation_environment is not inflationary, otherwise bearish if
\* risk_sentiment is risk_off or growth_outlook is contracting, otherwise
\* neutral: a function of those three fields of the same rating.
C15_OverallEnvironmentRule ==
    Rated =>
        LET bullish == ret.risk_sentiment = "risk_on"
                          /\ ret.inflation_environment # "inflationary"
            bearish == ret.risk_sentiment = "risk_off"
                          \/ ret.growth_outlook = "contracting"
        IN  /\ bullish => ret.overall_environment = "bullish"
            /\ (~bullish /\ bearish) => ret.overall_environment = "bearish"
            /\ (~bullish /\ ~bearish) => ret.overall_environment = "neutral"

\* both the bullish and the bearish condition hold: rated bullish
C15_Witness ==
    /\ Rated
    /\ ret.risk_sentiment = "risk_on"
    /\ ret.inflation_environment = "stable"
    /\ ret.growth_outlook = "contracting"
    /\ ret.overall_environment = "bullish"

\* C16: when the volatility reading or the yield-curve reading is absent
\* from the stored indicators (the empty mapping included),
\* rate_macro_environment returns None without raising and leaves the
\* stored environment_rating unchanged.
\* (A step that sets call to rate_macro_environment and leaves the clock
\* alone is a call of rate_macro_environment.)
C16_MissingReadingNoResult ==
    [][ (/\ call'.op = "rate_macro_environment"
         /\ now' = now
         /\ {"vix", "treasury_yields"} \ DOMAIN indicators # {})
        => (/\ ret' = NoneVal
            /\ raised' = "none"
            /\ environment_rating' = environment_rating) ]_vars

\* a call with the volatility reading stored and the yield curve absent
C16_Witness ==
    /\ call.op = "rate_macro_environment"
    /\ ret = NoneVal
    /\ "vix" \in DOMAIN indicators
    /\ "treasury_yields" \notin DOMAIN indicators
    /\ "economic_data" \in DOMAIN indicators

\* C17: when the yield-curve shape could not be determined (interpretation
\* 'unknown'), rate_macro_environment never returns a rating whose
\* risk_sentiment is risk_on or whose overall_environment is bullish.
C17_UnknownCurveNoCategory ==
    (/\ Rated
     /\ indicators["treasury_yields"].interpretation = "unknown")
    => (ret.risk_sentiment # "risk_on" /\ ret.overall_environment # "bullish")

\* C18: two rate_macro_environment calls on identical stored indicator
\* readings return ratings identical in every field, whatever the clock
\* time of each call.
\* (prev is the call just before the last one: nothing but the clock has
\* changed between the two calls.)
C18_RatingIndependentOfClock ==
    (call.op = "rate_macro_environment" /\ prev.call.op = "rate_macro_environment")
    => ret = prev.ret

\* C19: when fetch_vix has just failed (returned None), the following
\* rate_macro_environment does not rate from a volatility reading left over
\* from an earlier fetch: it has no volatility reading and returns None.
C19_NoStaleVolatility ==
    (/\ call.op = "rate_macro_environment"
     /\ prev.call.op = "fetch_vix"
     /\ prev.ret = NoneVal)
    => ret = NoneVal

\* C20: after a rating whose overall_environment is bullish (resp. bearish)
\* suggest_es_bias yields direction long (resp. short), confidence high and
\* a rationale whose first entry names that environment; before any rating
\* has been stored it yields None.
C20_DirectionalBias ==
    call.op = "suggest_es_bias" =>
        IF environment_rating = EmptyDict
        THEN ret = NoneVal
        ELSE /\ ret # NoneVal
             /\ environment_rating.overall_environment = "bullish" =>
                    /\ ret.direction = "long"
                    /\ ret.confidence = "high"
                    /\ ret.rationale[1] = "Overall macro environment is bullish"
             /\ environment_rating.overall_environment = "bearish" =>
                    /\ ret.direction = "short"
                    /\ ret.confidence = "high"
                    /\ ret.rationale[1] = "Overall macro environment is bearish"

\* a bias suggested after a bullish rating
C20_Witness ==
    /\ call.op = "suggest_es_bias"
    /\ environment_rating # EmptyDict
    /\ environment_rating.overall_environment = "bullish"
    /\ ret.direction = "long"

----------------------------------------------------------------------------
(* Properties of the position suggestions *)

Suggested == call.op = "generate_position_suggestions"

\* the analysed articles that mention a symbol as a stock or as a crypto token
FieldOfType(type) == IF type = "stock" THEN "tickers" ELSE "crypto"

ItemsOf(symbol, type) ==
    {i \in DOMAIN analyzed_data :
        \E k \in DOMAIN analyzed_data[i][FieldOfType(type)] :
            analyzed_data[i][FieldOfType(type)][k] = symbol}

Tally(symbol, type, sentiment) ==
    Cardinality({i \in ItemsOf(symbol, type) : analyzed_data[i].sentiment = sentiment})

\* the suggestions returned in one list, and in all
ReportedIn(l) == {ret[l][k] : k \in DOMAIN ret[l]}

AllReported == ReportedIn("bullish") \cup ReportedIn("bearish") \cup ReportedIn("neutral")

\* C21: a symbol is listed bullish exactly when its bullish count exceeds
\* 1.5 times its bearish count, bearish exactly when its bearish count exceeds
\* 1.5 times its bullish count, neutral otherwise; 6/3/1 is bullish, 5/4 is
\* neutral, and the two conditions never hold together
C21_SuperMajorityRule ==
    Suggested =>
        /\ \A l \in {"bullish", "bearish", "neutral"} : \A x \in ReportedIn(l) :
              LET b == Tally(x.symbol, x.type, "bullish")
                  br == Tally(x.symbol, x.type, "bearish")
              IN  /\ x.sentiment = l
                  /\ (l = "bullish") <=> (2 * b > 3 * br)
                  /\ (l = "bearish") <=> (2 * br > 3 * b)
                  /\ ~(2 * b > 3 * br /\ 2 * br > 3 * b)
        /\ analyzed_data = CountedArticles(6, 3, 1) =>
              \E x \in ReportedIn("bullish") : x.symbol = "AAPL"
        /\ analyzed_data = CountedArticles(5, 4, 0) =>
              \E x \in ReportedIn("neutral") : x.symbol = "AAPL"

C21_Witness ==
    /\ Suggested
    /\ analyzed_data = CountedArticles(6, 3, 1)
    /\ \E x \in ReportedIn("bullish") : x.symbol = "AAPL" /\ x.article_count = 10

\* C22: a symbol mentioned by fewer than 2 articles is in no list, a symbol
\* mentioned by at least 2 is in one, and no analysed article gives three
\* empty lists and no exception
C22_MinimumArticles ==
    Suggested =>
        /\ raised = "none"
        /\ \A symbol \in {"AAPL", "TSLA", "BTC"} : \A type \in {"stock", "crypto"} :
              (Cardinality(ItemsOf(symbol, type)) >= 2)
                  <=> (\E x \in AllReported : x.symbol = symbol /\ x.type = type)
        /\ analyzed_data = <<>> =>
              ret = [bullish |-> <<>>, bearish |-> <<>>, neutral |-> <<>>]

C22_Witness ==
    /\ Suggested
    /\ Cardinality(ItemsOf("BTC", "crypto")) = 1
    /\ Cardinality(ItemsOf("TSLA", "stock")) = 1
    /\ \E x \in AllReported : x.symbol = "AAPL"
    /\ \A x \in AllReported : x.symbol = "AAPL"

\* C23: the confidence of a suggestion is 100 * count[majority] / total, where
\* total is the sum of the three counts and the article_count, so it lies
\* between 0 and 100
C23_ConfidenceIsShare ==
    Suggested =>
        \A x \in AllReported :
            LET total == Tally(x.symbol, x.type, "bullish")
                         + Tally(x.symbol, x.type, "bearish")
                         + Tally(x.symbol, x.type, "neutral")
            IN  /\ x.article_count = total
                /\ total = Cardinality(ItemsOf(x.symbol, x.type))
                /\ x.confidence.den > 0
                /\ x.confidence.num * total
                      = 100 * Tally(x.symbol, x.type, x.sentiment) * x.confidence.den
                /\ x.confidence.num >= 0
                /\ x.confidence.num <= 100 * x.confidence.den

C23_Witness ==
    /\ Suggested
    /\ \E x \in ReportedIn("bullish") :
          /\ x.article_count = 3
          /\ Tally(x.symbol, x.type, "bullish") = 2
          /\ x.confidence.num * 3 = 200 * x.confidence.den
    /\ \E x \in ReportedIn("neutral") : x.confidence.num = 0

\* C24: supporting_articles holds min(3, total) of the symbol's articles, no
\* article left out has a greater absolute score than one kept, the list is
\* in non-increasing absolute score, and articles of equal absolute score
\* keep their input order
C24_SupportingArticles ==
    Suggested =>
        \A x \in AllReported :
            LET items == ItemsOf(x.symbol, x.type)
                kept == x.supporting_articles
                titles == {kept[k].title : k \in DOMAIN kept}
            IN  /\ Len(kept) = IF Cardinality(items) < 3 THEN Cardinality(items) ELSE 3
                /\ Cardinality(titles) = Len(kept)
                /\ \A k \in DOMAIN kept :
                      /\ kept[k].title \in items
                      /\ kept[k].score = analyzed_data[kept[k].title].score
                      /\ kept[k].sentiment = analyzed_data[kept[k].title].sentiment
                /\ \A i \in items \ titles : \A k \in DOMAIN kept :
                      Abs(analyzed_data[i].score) <= Abs(kept[k].score)
                /\ \A j, k \in DOMAIN kept :
                      j < k => /\ Abs(kept[j].score) >= Abs(kept[k].score)
                               /\ Abs(kept[j].score) = Abs(kept[k].score)
                                     => kept[j].title < kept[k].title

C24_Witness ==
    /\ Suggested
    /\ \E x \in AllReported :
          /\ x.article_count = 4
          /\ Len(x.supporting_articles) = 3
          /\ x.supporting_articles[1].score = -80
          /\ x.supporting_articles[2].score = 80
          /\ x.supporting_articles[3].score = 30
          /\ x.supporting_articles[1].title = 2
          /\ \E i \in ItemsOf(x.symbol, x.type) : analyzed_data[i].score = 0

\* C28 as stated: a symbol listed bullish (bearish) has strictly more bullish
\* (bearish) articles than articles of either other sentiment
C28_DirectionalIsPlurality ==
    Suggested =>
        /\ \A x \in ReportedIn("bullish") :
              /\ Tally(x.symbol, x.type, "bullish") > Tally(x.symbol, x.type, "bearish")
              /\ Tally(x.symbol, x.type, "bullish") > Tally(x.symbol, x.type, "neutral")
        /\ \A x \in ReportedIn("bearish") :
              /\ Tally(x.symbol, x.type, "bearish") > Tally(x.symbol, x.type, "bullish")
              /\ Tally(x.symbol, x.type, "bearish") > Tally(x.symbol, x.type, "neutral")

\* C28: a symbol listed bullish (bearish) has at least one bullish (bearish)
\* article and more than 1.5 times as many of them as bearish (bullish)
\* ones; the neutral articles are not compared and may outnumber them
C28_DirectionalBeatsOpposite ==
    Suggested =>
        /\ \A x \in ReportedIn("bullish") :
              /\ Tally(x.symbol, x.type, "bullish") >= 1
              /\ 2 * Tally(x.symbol, x.type, "bullish")
                    > 3 * Tally(x.symbol, x.type, "bearish")
        /\ \A x \in ReportedIn("bearish") :
              /\ Tally(x.symbol, x.type, "bearish") >= 1
              /\ 2 * Tally(x.symbol, x.type, "bearish")
                    > 3 * Tally(x.symbol, x.type, "bullish")

C28_Witness ==
    /\ Suggested
    /\ \E x \in ReportedIn("bullish") :
          /\ Tally(x.symbol, x.type, "bullish") = 1
          /\ Tally(x.symbol, x.type, "bearish") = 0
          /\ Tally(x.symbol, x.type, "neutral") = 2


----------------------------------------------------------------------------
(* The overall environment and the growth outlook *)

\* C29 as stated: a rating whose overall_environment is bullish never has
\* a contracting growth_outlook
C29_BullishNotContracting ==
    Rated => (ret.overall_environment = "bullish" => ret.growth_outlook # "contracting")

\* C29: a rating's overall_environment is bullish exactly when its
\* risk_sentiment is risk_on and its inflation_environment is not
\* inflationary, whatever its growth_outlook, contracting included
C29_BullishWhateverGrowth ==
    Rated =>
        ((ret.overall_environment = "bullish")
            <=> (ret.risk_sentiment = "risk_on"
                 /\ ret.inflation_environment # "inflationary"))

C29_Witness ==
    /\ Rated
    /\ ret.overall_environment = "bullish"
    /\ ret.growth_outlook = "contracting"
    /\ environment_rating = ret


----------------------------------------------------------------------------
(* Properties of the divergence flags *)

Compared == call.op = "detect_divergences"

SignedOf(consensus) ==
    CASE consensus.sentiment = "bullish" -> consensus.confidence
      [] consensus.sentiment = "bearish" -> 0 - consensus.confidence
      [] OTHER -> 0

----------------------------------------------------------------------------
(* One contract's failure and the other contracts' alerts *)

\* C26: generate_alerts over several contracts raises nothing when the
\* processing of one contract fails, and returns the alerts of every other
\* contract of the list, as found from that contract's stored series
C26_OtherContractsStillAlerted ==
    call.op = "generate_alerts" =>
        /\ raised = "none"
        /\ \A i \in DOMAIN call.contracts :
              call.contracts[i] \in ConfigContracts =>
                  LET found == ContractAlerts(volume_data, oi_data, config, calendar,
                                              now, call.contracts[i])
                  IN  \A k \in DOMAIN found : \E j \in DOMAIN ret : ret[j] = found[k]


----------------------------------------------------------------------------
(* Properties of run_all *)

ResultKeys ==
    {"news_results", "macro_results", "cme_results", "sentiment_results", "report_files"}

\* the results gathered when a statement of run_all is about to run
GatheredBefore(stage) ==
    CASE stage = "news" -> {}
      [] stage = "macro" -> {"news_results"}
      [] stage = "cme" -> {"news_results", "macro_results"}
      [] stage = "sentiment" -> {"news_results", "macro_results", "cme_results"}
      [] OTHER -> IF stage = "report" THEN ResultKeys \ {"report_files"} ELSE ResultKeys

\* C27: run_all attempts news, macro, cme, cross-check and report once each,
\* in this order, whatever the earlier stages did: a disabled or raising
\* stage contributes None and the next stage runs, the cross-check is handed
\* the news stage's result, and the mapping returned has the five keys
C27_EveryStageOnceInOrder ==
    [][ pc' # pc =>
          /\ <<pc, pc'>> \in {<<"idle", "news">>, <<"news", "macro">>, <<"macro", "cme">>,
                              <<"cme", "sentiment">>, <<"sentiment", "report">>,
                              <<"report", "return">>, <<"return", "done">>}
          /\ raised' = "none"
          /\ DOMAIN results' = GatheredBefore(pc')
          /\ \A k \in DOMAIN results : pc # "idle" => results'[k] = results[k]
          /\ \A k \in DOMAIN results' \ DOMAIN results :
                call'.outcome \in {"disabled", "raises"} <=> results'[k] = NoneVal
          /\ pc = "sentiment" => call'.news_sentiment = results["news_results"]
          /\ pc' = "done" => /\ DOMAIN ret' = ResultKeys
                             /\ ret' = results
      ]_vars

C27_Witness ==
    /\ pc = "done"
    /\ ModuleEnabled(agent_config, "news_sentiment")
    /\ ~ModuleEnabled(agent_config, "cme_volume")
    /\ ret["news_results"] = NoneVal
    /\ ret["macro_results"] # NoneVal
    /\ ret["cme_results"] = NoneVal
    /\ ret["sentiment_results"] # NoneVal
    /\ ret["report_files"] # NoneVal


----------------------------------------------------------------------------
(* Properties of the configuration after a custom file was loaded *)

\* the options of a configuration: the paths to its values
RECURSIVE OptionPaths(_)
OptionPaths(node) ==
    IF node.kind # "dict" THEN {<<>>}
    ELSE UNION {{<<key>> \o path : path \in OptionPaths(node.items[key])} :
                   key \in DOMAIN node.items}

\* C30: after a custom configuration that overrides some nested options was
\* loaded, every default option of the agent and of the tracker is still
\* defined: volume_spike, oi_change, alert_period and the three calendar lists
C30_DefaultsStayDefined ==
    /\ call.op = "MarketAIAgent" =>
          OptionPaths(DefaultAgentConfig) \subseteq OptionPaths(agent_config)
    /\ call.op = "CMEVolumeTracker" =>
          /\ {"volume_spike", "oi_change", "alert_period"} \subseteq DOMAIN config
          /\ {"fomc_meetings", "earnings_seasons", "economic_releases"}
                \subseteq DOMAIN calendar

====
